---------------------------- MODULE Spec2Model ----------------------------
(***************************************************************************)
(* A model of the Flex container of masonry (src/masonry/src/widgets/      *)
(* flex.rs): the Spacing iterator, the builder and mutator operations and  *)
(* the three passes of Flex::layout.                                       *)
(*                                                                         *)
(* The code computes in f64.  Sizes, positions, gaps and constraints of    *)
(* the model are whole numbers of logical pixels (Rust's f64 is exact on   *)
(* them), and every intermediate quantity that is not a whole number       *)
(* (equal_space, remainder, flex_sum, px_per_flex, desired_major) is an    *)
(* IEEE-754 binary64 value, computed with round-to-nearest-even exactly as *)
(* the hardware does.  A binary64 value is the record                      *)
(*     [neg |-> BOOLEAN, m |-> natural number, e |-> Int]                  *)
(* standing for (-1)^neg * m * 2^e, with m odd (or m = 0, e = 0).  The     *)
(* natural number m has up to 53 bits, more than a TLC integer holds, so   *)
(* it is a little-endian sequence of 15-bit limbs.                         *)
(***************************************************************************)
EXTENDS Integers, Sequences, FiniteSets, TLC

\* ------------------------------------------------------------------------
\* Natural numbers of arbitrary size: little-endian sequences of limbs,
\* without leading (high) zero limbs; zero is the empty sequence.
\* ------------------------------------------------------------------------
LimbBits == 15
Base == 32768
MantissaBits == 53

RECURSIVE Pow2(_)
Pow2(k) == IF k = 0 THEN 1 ELSE 2 * Pow2(k - 1)

RECURSIVE IntBitLen(_)
IntBitLen(n) == IF n = 0 THEN 0 ELSE 1 + IntBitLen(n \div 2)

RECURSIVE BNorm(_)
BNorm(a) ==
    IF a = <<>> THEN <<>>
    ELSE IF a[Len(a)] = 0 THEN BNorm(SubSeq(a, 1, Len(a) - 1)) ELSE a

RECURSIVE BFromInt(_)
BFromInt(n) == IF n = 0 THEN <<>> ELSE <<n % Base>> \o BFromInt(n \div Base)

RECURSIVE BToInt(_)
BToInt(a) == IF a = <<>> THEN 0 ELSE a[1] + Base * BToInt(Tail(a))

Limb(a, i) == IF i <= Len(a) THEN a[i] ELSE 0

RECURSIVE BAddRec(_, _, _, _)
BAddRec(a, b, i, c) ==
    IF i > Len(a) /\ i > Len(b)
    THEN (IF c = 0 THEN <<>> ELSE <<c>>)
    ELSE LET s == Limb(a, i) + Limb(b, i) + c
         IN  <<s % Base>> \o BAddRec(a, b, i + 1, s \div Base)

BAdd(a, b) == BAddRec(a, b, 1, 0)

RECURSIVE BSubRec(_, _, _, _)
BSubRec(a, b, i, br) ==
    IF i > Len(a) THEN <<>>
    ELSE LET d == Limb(a, i) - Limb(b, i) - br
         IN  IF d < 0 THEN <<d + Base>> \o BSubRec(a, b, i + 1, 1)
                      ELSE <<d>> \o BSubRec(a, b, i + 1, 0)

\* a - b, for a >= b
BSub(a, b) == BNorm(BSubRec(a, b, 1, 0))

RECURSIVE BCmpRec(_, _, _)
BCmpRec(a, b, i) ==
    IF i = 0 THEN 0
    ELSE IF a[i] > b[i] THEN 1
    ELSE IF a[i] < b[i] THEN -1
    ELSE BCmpRec(a, b, i - 1)

\* -1, 0 or 1 as a < b, a = b or a > b
BCmp(a, b) ==
    IF Len(a) > Len(b) THEN 1
    ELSE IF Len(a) < Len(b) THEN -1
    ELSE BCmpRec(a, b, Len(a))

RECURSIVE BMulSmallRec(_, _, _, _)
BMulSmallRec(a, k, i, c) ==
    IF i > Len(a)
    THEN (IF c = 0 THEN <<>> ELSE <<c>>)
    ELSE LET p == a[i] * k + c
         IN  <<p % Base>> \o BMulSmallRec(a, k, i + 1, p \div Base)

\* a * k, for 0 <= k < Base
BMulSmall(a, k) == IF k = 0 THEN <<>> ELSE BMulSmallRec(a, k, 1, 0)

RECURSIVE BMulRec(_, _, _)
BMulRec(a, b, j) ==
    IF j > Len(b) THEN <<>>
    ELSE BAdd(BMulSmall(a, b[j]), <<0>> \o BMulRec(a, b, j + 1))

BMul(a, b) == BNorm(BMulRec(a, b, 1))

Zeros(n) == [i \in 1 .. n |-> 0]

\* a * 2^k
BShl(a, k) ==
    IF a = <<>> THEN <<>>
    ELSE Zeros(k \div LimbBits) \o BMulSmall(a, Pow2(k % LimbBits))

RECURSIVE BDivSmallRec(_, _, _, _)
BDivSmallRec(a, d, i, r) ==
    IF i = 0 THEN <<>>
    ELSE LET cur == r * Base + a[i]
         IN  BDivSmallRec(a, d, i - 1, cur % d) \o <<cur \div d>>

\* floor(a / d), for 0 < d <= Base
BDivSmall(a, d) == BNorm(BDivSmallRec(a, d, Len(a), 0))

RECURSIVE BModSmallRec(_, _, _, _)
BModSmallRec(a, d, i, r) ==
    IF i = 0 THEN r ELSE BModSmallRec(a, d, i - 1, (r * Base + a[i]) % d)

\* a mod d, for 0 < d <= Base
BModSmall(a, d) == BModSmallRec(a, d, Len(a), 0)

\* floor(a / 2^k)
BShr(a, k) ==
    IF k \div LimbBits >= Len(a) THEN <<>>
    ELSE BDivSmall(SubSeq(a, (k \div LimbBits) + 1, Len(a)), Pow2(k % LimbBits))

BBitLen(a) ==
    IF a = <<>> THEN 0 ELSE LimbBits * (Len(a) - 1) + IntBitLen(a[Len(a)])

\* bit i (from 0) of a
BBit(a, i) == (Limb(a, (i \div LimbBits) + 1) \div Pow2(i % LimbBits)) % 2

BIsOdd(a) == a # <<>> /\ a[1] % 2 = 1

RECURSIVE IntTrailingZeros(_)
IntTrailingZeros(n) == IF n % 2 = 1 THEN 0 ELSE 1 + IntTrailingZeros(n \div 2)

RECURSIVE BTrailingZerosRec(_, _)
BTrailingZerosRec(a, i) ==
    IF a[i] = 0 THEN LimbBits + BTrailingZerosRec(a, i + 1)
    ELSE IntTrailingZeros(a[i])

\* number of trailing zero bits of a > 0
BTrailingZeros(a) == BTrailingZerosRec(a, 1)

RECURSIVE BDigit(_, _, _, _)
\* the largest g in lo .. hi with d * g <= cur, by bisection
BDigit(cur, d, lo, hi) ==
    IF lo = hi THEN lo
    ELSE IF BCmp(BMulSmall(d, (lo + hi + 1) \div 2), cur) <= 0
         THEN BDigit(cur, d, (lo + hi + 1) \div 2, hi)
         ELSE BDigit(cur, d, lo, ((lo + hi + 1) \div 2) - 1)

\* the quotient so far with one more (low) digit
BPushDigit(rest, g) == [q |-> rest.q \o <<g>>, r |-> rest.r]

RECURSIVE BDivRec(_, _, _, _)
RECURSIVE BDivStep(_, _, _, _, _)
\* long division, one limb of n per step, from limb i down to limb 1:
\* r < d is the running remainder
BDivRec(n, d, i, r) ==
    IF i = 0 THEN [q |-> <<>>, r |-> r]
    ELSE BDivStep(n, d, i, BNorm(<<n[i]>> \o r), BDigit(BNorm(<<n[i]>> \o r), d, 0, Base - 1))

\* cur: the remainder with limb i brought down, g: the quotient digit
BDivStep(n, d, i, cur, g) ==
    IF g = 0 THEN BPushDigit(BDivRec(n, d, i - 1, cur), 0)
    ELSE BPushDigit(BDivRec(n, d, i - 1, BSub(cur, BMulSmall(d, g))), g)

BNormQ(qr) == [q |-> BNorm(qr.q), r |-> qr.r]

\* [q |-> floor(n / d), r |-> n mod d], for d > 0
BDivMod(n, d) == BNormQ(BDivRec(n, d, Len(n), <<>>))

\* ------------------------------------------------------------------------
\* IEEE-754 binary64 (Rust's f64), round-to-nearest, ties to even.  Every
\* magnitude of the model lies far inside the normal range, so neither
\* subnormals nor infinities arise.
\* ------------------------------------------------------------------------
FZero == [neg |-> FALSE, m |-> <<>>, e |-> 0]

FIsZero(x) == x.m = <<>>

\* (-1)^neg * M * 2^E for M > 0 with t trailing zero bits, M of at most
\* MantissaBits bits after they are dropped
FStrip(neg, M, E, t) == [neg |-> neg, m |-> BShr(M, t), e |-> E + t]

FNormal(neg, M, E) == FStrip(neg, M, E, BTrailingZeros(M))

\* M has k > 0 bits too many: q is M without its k low bits; q is rounded
\* up when the bits dropped are more than half of q's last place, or
\* exactly half of it with q odd
FRoundCut(neg, M, E, k, q) ==
    FNormal(neg,
            IF BBit(M, k - 1) = 1 /\ (BTrailingZeros(M) < k - 1 \/ BIsOdd(q))
            THEN BAdd(q, <<1>>) ELSE q,
            E + k)

FRoundBits(neg, M, E, k) ==
    IF k <= 0 THEN FNormal(neg, M, E) ELSE FRoundCut(neg, M, E, k, BShr(M, k))

\* the binary64 nearest to (-1)^neg * M * 2^E, M any natural number
FRound(neg, M, E) ==
    IF M = <<>> THEN FZero ELSE FRoundBits(neg, M, E, BBitLen(M) - MantissaBits)

FFromInt(n) == FRound(n < 0, BFromInt(IF n < 0 THEN -n ELSE n), 0)

FNeg(x) == IF FIsZero(x) THEN x ELSE [x EXCEPT !.neg = ~x.neg]

\* X * 2^e0 and Y * 2^e0 with signs xneg and yneg; c compares X with Y
FAddAligned(xneg, X, yneg, Y, e0, c) ==
    FRound(IF xneg = yneg \/ c >= 0 THEN xneg ELSE yneg,
           IF xneg = yneg THEN BAdd(X, Y)
           ELSE IF c >= 0 THEN BSub(X, Y) ELSE BSub(Y, X),
           e0)

FAddShifted(xneg, X, yneg, Y, e0) ==
    FAddAligned(xneg, X, yneg, Y, e0, BCmp(X, Y))

FAdd(x, y) ==
    IF FIsZero(x) THEN y
    ELSE IF FIsZero(y) THEN x
    ELSE FAddShifted(x.neg, BShl(x.m, x.e - (IF x.e < y.e THEN x.e ELSE y.e)),
                     y.neg, BShl(y.m, y.e - (IF x.e < y.e THEN x.e ELSE y.e)),
                     IF x.e < y.e THEN x.e ELSE y.e)

FSub(x, y) == FAdd(x, FNeg(y))

FMul(x, y) == FRound(x.neg # y.neg, BMul(x.m, y.m), x.e + y.e)

\* twice the quotient, plus one (a sticky bit) when the division left a
\* remainder
BSticky(qr) ==
    IF qr.r = <<>> THEN BMulSmall(qr.q, 2)
    ELSE BAdd(BMulSmall(qr.q, 2), <<1>>)

\* the quotient of x.m * 2^s by y.m
FDivShifted(x, y, s) ==
    FRound(x.neg # y.neg, BSticky(BDivMod(BShl(x.m, s), y.m)), x.e - y.e - s - 1)

\* x / y for y # 0: the quotient is computed to at least 55 bits, with one
\* more (sticky) bit that is set when the division is inexact
FDiv(x, y) ==
    IF FIsZero(x) THEN FZero
    ELSE FDivShifted(x, y, MantissaBits + 2 + BBitLen(y.m) - BBitLen(x.m))

\* -1, 0, 1 as d < 0, d = 0, d > 0
FSign(d) == IF FIsZero(d) THEN 0 ELSE IF d.neg THEN -1 ELSE 1

\* -1, 0, 1 as x < y, x = y, x > y
FCmp(x, y) == FSign(FSub(x, y))

\* rounding to the nearest integer with halves toward zero
FRoundHalfToZero(x) ==
    IF FIsZero(x) THEN 0
    ELSE (IF x.neg THEN -1 ELSE 1)
         * (IF x.e >= 0 THEN BToInt(BShl(x.m, x.e))
            ELSE BToInt(BShr(x.m, 0 - x.e))
                 + (IF (0 - x.e) > 1 THEN BBit(x.m, (0 - x.e) - 1) ELSE 0))

\* f64::round: the nearest integer, halves away from zero (as an integer)
FRoundToInt(x) ==
    IF FIsZero(x) THEN 0
    ELSE (IF x.neg THEN -1 ELSE 1)
         * (IF x.e >= 0 THEN BToInt(BShl(x.m, x.e))
            ELSE BToInt(BShr(x.m, 0 - x.e)) + BBit(x.m, (0 - x.e) - 1))

\* ------------------------------------------------------------------------
\* Spacing: the iterator over the gaps before, between and after children.
\* ------------------------------------------------------------------------
MainAxisAlignment ==
    {"Start", "Center", "End", "SpaceBetween", "SpaceEvenly", "SpaceAround"}

Max(a, b) == IF a >= b THEN a ELSE b
Min(a, b) == IF a <= b THEN a ELSE b

\* Spacing::new dividing by the child count for SpaceBetween
EqualSpaceDivisorPerChild(alignment, n_children) ==
    CASE alignment = "Center" -> 2
      [] alignment = "SpaceBetween" -> n_children
      [] alignment = "SpaceEvenly" -> n_children + 1
      [] alignment = "SpaceAround" -> 2 * n_children
      [] OTHER -> 0

\* what Spacing::new divides extra by, per alignment; 0 where equal_space
\* is 0.
EqualSpaceDivisor(alignment, n_children) ==
    CASE alignment = "Center" -> 2
      [] alignment = "SpaceBetween" -> Max(n_children - 1, 1)
      [] alignment = "SpaceEvenly" -> n_children + 1
      [] alignment = "SpaceAround" -> 2 * n_children
      [] OTHER -> 0

\* Spacing::new.  extra is a whole, finite number here, so the is_finite
\* test of the code keeps it as it is.
SpacingNew(alignment, extra, n_children) ==
    [alignment   |-> alignment,
     extra       |-> extra,
     n_children  |-> n_children,
     index       |-> 0,
     equal_space |->
        IF n_children > 0 /\ EqualSpaceDivisor(alignment, n_children) # 0
        THEN FDiv(FFromInt(extra), FFromInt(EqualSpaceDivisor(alignment, n_children)))
        ELSE FZero,
     remainder   |-> FZero]

\* next_space without the carried remainder
NextSpaceNoCarry(sp, desired_space, actual_space) ==
    [sp |-> sp, val |-> actual_space]

\* the last two lines of next_space
NextSpaceRounded(sp, desired_space, actual_space) ==
    [sp  |-> [sp EXCEPT !.remainder = FSub(desired_space, FFromInt(actual_space))],
     val |-> actual_space]

NextSpaceDesired(sp, desired_space) ==
    NextSpaceRounded(sp, desired_space, FRoundToInt(desired_space))

\* Spacing::next_space: [sp |-> the iterator afterwards, val |-> actual_space]
NextSpace(sp) == NextSpaceDesired(sp, FAdd(sp.equal_space, sp.remainder))

\* self.index += 1; Some(result)
SpacingAdvance(r) == [sp |-> [r.sp EXCEPT !.index = @ + 1], val |-> r.val]

\* the match of Spacing::next; one: the outcome of a call of next_space,
\* two: the outcome of a second call after it
SpacingMatch(sp, one, two) ==
    IF sp.n_children = 0 THEN [sp |-> sp, val |-> sp.extra]
    ELSE CASE sp.alignment = "Start" ->
                [sp |-> sp, val |-> IF sp.index = sp.n_children THEN sp.extra ELSE 0]
           [] sp.alignment = "End" ->
                [sp |-> sp, val |-> IF sp.index = 0 THEN sp.extra ELSE 0]
           [] sp.alignment = "Center" ->
                IF sp.index = 0 \/ sp.index = sp.n_children THEN one
                ELSE [sp |-> sp, val |-> 0]
           [] sp.alignment = "SpaceBetween" ->
                IF sp.index = 0 THEN [sp |-> sp, val |-> 0]
                ELSE IF sp.index # sp.n_children THEN one
                ELSE IF sp.n_children = 1 THEN one ELSE [sp |-> sp, val |-> 0]
           [] sp.alignment = "SpaceEvenly" -> one
           [] sp.alignment = "SpaceAround" ->
                IF sp.index = 0 \/ sp.index = sp.n_children THEN one
                ELSE [sp |-> two.sp, val |-> one.val + two.val]

\* a second call of next_space that does not see the first one's remainder
SpacingCallsApart(sp, one) == SpacingAdvance(SpacingMatch(sp, one, NextSpace(sp)))

SpacingCalls(sp, one) == SpacingAdvance(SpacingMatch(sp, one, NextSpace(one.sp)))

\* Spacing::next for index <= n_children:
\* [sp |-> the iterator afterwards, val |-> the value in Some(..)]
SpacingNext(sp) == SpacingCalls(sp, NextSpace(sp))

\* Spacing::next returns None once index > n_children
SpacingExhausted(sp) == sp.index > sp.n_children

\* spacing.next().unwrap_or(0.)
SpacingNextOrZero(sp) ==
    IF SpacingExhausted(sp) THEN [sp |-> sp, val |-> 0] ELSE SpacingNext(sp)

\* r.val followed by the values in rest
SpacingCons(r, rest) == <<r.val>> \o rest

RECURSIVE SpacingCollectFrom(_)
RECURSIVE SpacingCollectAfter(_)
SpacingCollectFrom(sp) ==
    IF SpacingExhausted(sp) THEN <<>> ELSE SpacingCollectAfter(SpacingNext(sp))

SpacingCollectAfter(r) == SpacingCons(r, SpacingCollectFrom(r.sp))

\* Spacing::new(a, e, n).collect()
SpacingCollect(alignment, extra, n_children) ==
    SpacingCollectFrom(SpacingNew(alignment, extra, n_children))

RECURSIVE SumSeq(_)
SumSeq(q) == IF q = <<>> THEN 0 ELSE Head(q) + SumSeq(Tail(q))

\* ------------------------------------------------------------------------
\* Axis, CrossAxisAlignment, BoxConstraints.  A size, a point: <<x, y>>.
\* ------------------------------------------------------------------------
Axis == {"Horizontal", "Vertical"}

CrossAxisAlignment == {"Start", "Center", "End", "Baseline", "Fill"}

\* the None of an Option
None == "None"

AxisCross(axis) == IF axis = "Horizontal" THEN "Vertical" ELSE "Horizontal"

AxisMajor(axis, size) == IF axis = "Horizontal" THEN size[1] ELSE size[2]

AxisMinor(axis, size) == AxisMajor(AxisCross(axis), size)

AxisPack(axis, major, minor) ==
    IF axis = "Horizontal" THEN <<major, minor>> ELSE <<minor, major>>

\* AxisConstraints that fixes the major axis to major
AxisConstraintsTight(axis, bc, min_major, major) ==
    IF axis = "Horizontal"
    THEN [min |-> <<major, bc.min[2]>>, max |-> <<major, bc.max[2]>>]
    ELSE [min |-> <<bc.min[1], major>>, max |-> <<bc.max[1], major>>]

\* Axis::constraints
AxisConstraints(axis, bc, min_major, major) ==
    IF axis = "Horizontal"
    THEN [min |-> <<min_major, bc.min[2]>>, max |-> <<major, bc.max[2]>>]
    ELSE [min |-> <<bc.min[1], min_major>>, max |-> <<bc.max[1], major>>]

\* CrossAlign that treats Baseline as Start
CrossAlignBaselineStart(alignment, val) ==
    CASE alignment = "Center" -> FRoundToInt(FDiv(FFromInt(val), FFromInt(2)))
      [] alignment = "End" -> val
      [] OTHER -> 0

\* CrossAxisAlignment::align
CrossAlign(alignment, val) ==
    CASE alignment = "Start" -> 0
      [] alignment \in {"Center", "Baseline"} ->
             FRoundToInt(FDiv(FFromInt(val), FFromInt(2)))
      [] alignment = "End" -> val
      [] alignment = "Fill" -> 0

BcLoosen(bc) == [min |-> <<0, 0>>, max |-> bc.max]

BcTight(size) == [min |-> size, max |-> size]

Clamp(v, lo, hi) == Min(Max(v, lo), hi)

BcConstrain(bc, size) ==
    <<Clamp(size[1], bc.min[1], bc.max[1]), Clamp(size[2], bc.min[2], bc.max[2])>>

BcShrink(bc, dw, dh) ==
    [min |-> <<Max(bc.min[1] - dw, 0), Max(bc.min[2] - dh, 0)>>,
     max |-> <<Max(bc.max[1] - dw, 0), Max(bc.max[2] - dh, 0)>>]

\* Padding (the same on the four sides) and a BorderWidth of zero
PaddingLayoutDown(pad, bc) == BcShrink(bc, 2 * pad, 2 * pad)

PaddingPlaceDown(pad, pos) == <<pos[1] + pad, pos[2] + pad>>

PaddingLayoutUp(pad, size, baseline) ==
    [size |-> <<size[1] + 2 * pad, size[2] + 2 * pad>>, baseline |-> baseline + pad]

\* ------------------------------------------------------------------------
\* The layout context for one child widget.  A pod holds what the context
\* keeps for the widget (size, origin, baseline, needs-layout flag) and
\* what the widget itself asks for: a leaf that wants pref, as a SizedBox
\* without child does, and reports the baseline pbl.
\* ------------------------------------------------------------------------
NoPod == [pref |-> <<0, 0>>, pbl |-> 0, size |-> <<0, 0>>, origin |-> <<0, 0>>,
          bl |-> 0, needs_layout |-> FALSE]

\* WidgetPod::new: a widget that was never laid out
NewPod(pref, pbl) ==
    [pref |-> pref, pbl |-> pbl, size |-> <<0, 0>>, origin |-> <<0, 0>>,
     bl |-> 0, needs_layout |-> TRUE]

\* the child widget's own layout
WidgetLayout(pod, bc) == BcConstrain(bc, pod.pref)

CtxChildNeedsLayout(pod) == pod.needs_layout

\* the size on record for the child when the solver asks
CtxOldSize(pod) == pod.size

CtxRunLayout(pod, bc) ==
    [pod EXCEPT !.size = WidgetLayout(pod, bc), !.bl = pod.pbl,
                !.needs_layout = FALSE]

CtxSkipLayout(pod) == pod

CtxChildSize(pod) == pod.size

CtxChildBaselineOffset(pod) == pod.bl

CtxPlaceChild(pod, pos) == [pod EXCEPT !.origin = pos]

\* child_layout_rect(widget).max_y()
CtxChildMaxY(pod) == pod.origin[2] + pod.size[2]

\* ------------------------------------------------------------------------
\* enum Child.  One record shape for the four variants: flex is the weight
\* of Flex and FlexedSpacer, len and calc the two numbers of a spacer (the
\* length asked for and calculated_size), pod the widget of Fixed and Flex.
\* Weights are whole numbers here.
\* ------------------------------------------------------------------------
ChildFixed(pod, alignment) ==
    [kind |-> "Fixed", alignment |-> alignment, flex |-> 0, len |-> 0,
     calc |-> 0, pod |-> pod]

ChildFlex(pod, alignment, flex) ==
    [kind |-> "Flex", alignment |-> alignment, flex |-> flex, len |-> 0,
     calc |-> 0, pod |-> pod]

ChildFixedSpacer(len, calc) ==
    [kind |-> "FixedSpacer", alignment |-> None, flex |-> 0, len |-> len,
     calc |-> calc, pod |-> NoPod]

ChildFlexedSpacer(flex, calc) ==
    [kind |-> "FlexedSpacer", alignment |-> None, flex |-> flex, len |-> 0,
     calc |-> calc, pod |-> NoPod]

IsWidget(child) == child.kind \in {"Fixed", "Flex"}

\* alignment.unwrap_or(self.cross_alignment)
EffectiveAlignment(child, cross_alignment) ==
    IF child.alignment = None THEN cross_alignment ELSE child.alignment

\* theme::WIDGET_PADDING_HORIZONTAL and theme::WIDGET_PADDING_VERTICAL
WidgetPaddingHorizontal == 8
WidgetPaddingVertical == 10

AxisDefaultSpacer(axis) ==
    IF axis = "Vertical" THEN WidgetPaddingVertical ELSE WidgetPaddingHorizontal

\* gap: Option<f64>
GapNone == [some |-> FALSE, val |-> 0]

GapSome(gap) == [some |-> TRUE, val |-> gap]

GapUnwrapOr(gap, default) == IF gap.some THEN gap.val ELSE default

\* const MIN_FLEX_SUM: f64 = 0.0001
MinFlexSum == FDiv(FFromInt(1), FFromInt(10000))

\* ------------------------------------------------------------------------
\* Flex::layout.  The local variables of the function are the fields of
\* one record (acc) that the three loops hand on: children (with the state
\* the context keeps for each), the constraints, the accumulators, the
\* Spacing iterator, and a record of what the call read and did:
\* needs_layout (ctx.needs_layout() as read for any_changed), dirty (the
\* children for which ctx.child_needs_layout was true on entry), changed
\* (the children whose measurement found old_size != child_size) and log,
\* the calls made on the context: <<"run_layout", i, bc>>,
\* <<"skip_layout", i>> and <<"place_child", i, pos>> for the i-th child
\* (from 1).
\* ------------------------------------------------------------------------
\* the locals before the first loop
LayoutStart(f, ctx_needs_layout, bc0, bc) ==
    [children           |-> f.children,
     bc0                |-> bc0,
     bc                 |-> bc,
     bc_changed         |-> f.old_bc # bc,
     gap                |-> GapUnwrapOr(f.gap, AxisDefaultSpacer(f.direction)),
     minor              |-> AxisMinor(f.direction, bc.min),
     max_above_baseline |-> 0,
     max_below_baseline |-> 0,
     any_use_baseline   |-> FALSE,
     any_changed        |-> (f.old_bc # bc) \/ ctx_needs_layout,
     needs_layout       |-> ctx_needs_layout,
     dirty              |-> {i \in 1 .. Len(f.children) :
                                IsWidget(f.children[i])
                                /\ CtxChildNeedsLayout(f.children[i].pod)},
     changed            |-> {},
     major_non_flex     |-> Max(Len(f.children) - 1, 0)
                            * GapUnwrapOr(f.gap, AxisDefaultSpacer(f.direction)),
     flex_sum           |-> MinFlexSum,
     remaining          |-> 0,
     px_per_flex        |-> FZero,
     remainder          |-> FZero,
     major_flex         |-> 0,
     extra              |-> 0,
     spacing            |-> SpacingNew("Start", 0, 0),
     spaces             |-> <<>>,
     minor_dim          |-> 0,
     extra_height       |-> 0,
     major              |-> 0,
     my_size            |-> <<0, 0>>,
     size               |-> <<0, 0>>,
     baseline           |-> 0,
     log                |-> <<>>]

\* a Fixed child is measured, not skipped
MeasureFixed(bc_changed, pod) == bc_changed \/ CtxChildNeedsLayout(pod)

\* MeasureFlex without any_changed
MeasureFlexOwnFlag(any_changed, pod) == CtxChildNeedsLayout(pod)

\* a Flex child is measured, not skipped
MeasureFlex(any_changed, pod) == any_changed \/ CtxChildNeedsLayout(pod)

\* what both measuring loops do with a child once run_layout or
\* skip_layout has left it as pod
MeasuredChild(f, acc, i, measure, child_bc, pod) ==
    [acc EXCEPT
        !.children[i].pod = pod,
        !.any_use_baseline =
            @ \/ (measure
                  /\ EffectiveAlignment(acc.children[i], f.cross_alignment) = "Baseline"),
        !.any_changed =
            @ \/ (measure /\ CtxOldSize(acc.children[i].pod) # CtxChildSize(pod)),
        !.changed =
            IF measure /\ CtxOldSize(acc.children[i].pod) # CtxChildSize(pod)
            THEN @ \cup {i} ELSE @,
        !.minor = Max(@, AxisMinor(f.direction, CtxChildSize(pod))),
        !.max_above_baseline =
            Max(@, CtxChildSize(pod)[2] - CtxChildBaselineOffset(pod)),
        !.max_below_baseline = Max(@, CtxChildBaselineOffset(pod)),
        !.log = Append(@, IF measure THEN <<"run_layout", i, child_bc>>
                          ELSE <<"skip_layout", i>>)]

MeasureChild(f, acc, i, measure, child_bc) ==
    MeasuredChild(f, acc, i, measure, child_bc,
                  IF measure THEN CtxRunLayout(acc.children[i].pod, child_bc)
                  ELSE CtxSkipLayout(acc.children[i].pod))

\* AddMajorNonFlex that adds nothing
AddMajorNonFlexNothing(f, acc, i) == acc

\* major_non_flex += self.direction.major(child_size)
AddMajorNonFlex(f, acc, i) ==
    [acc EXCEPT !.major_non_flex =
        @ + AxisMajor(f.direction, CtxChildSize(acc.children[i].pod))]

Pass1Fixed(f, acc, i) ==
    AddMajorNonFlex(f,
        MeasureChild(f, acc, i, MeasureFixed(acc.bc_changed, acc.children[i].pod),
                     BcLoosen(acc.bc)),
        i)

\* Pass1FixedSpacer without the clamp
Pass1FixedSpacerRaw(acc, i) ==
    [acc EXCEPT !.children[i].calc = acc.children[i].len,
                !.major_non_flex = @ + acc.children[i].len]

Pass1FixedSpacer(acc, i) ==
    [acc EXCEPT !.children[i].calc = Max(acc.children[i].len, 0),
                !.major_non_flex = @ + Max(acc.children[i].len, 0)]

\* Pass1Flex that also calls skip_layout for the child
Pass1FlexSkipping(acc, i) ==
    [acc EXCEPT !.flex_sum = FAdd(@, FFromInt(acc.children[i].flex)),
                !.log = Append(@, <<"skip_layout", i>>)]

Pass1Flex(acc, i) ==
    [acc EXCEPT !.flex_sum = FAdd(@, FFromInt(acc.children[i].flex))]

RECURSIVE Pass1(_, _, _)
\* the first loop: the fixed children and the fixed spacers
Pass1(f, acc, i) ==
    IF i > Len(acc.children) THEN acc
    ELSE Pass1(f,
               CASE acc.children[i].kind = "Fixed" -> Pass1Fixed(f, acc, i)
                 [] acc.children[i].kind = "FixedSpacer" -> Pass1FixedSpacer(acc, i)
                 [] OTHER -> Pass1Flex(acc, i),
               i + 1)

\* remaining without the subtraction of the fixed total
RemainingOfWhole(f, acc) == AxisMajor(f.direction, acc.bc.max)

\* remaining and px_per_flex
Remaining(f, acc) ==
    Max(AxisMajor(f.direction, acc.bc.max) - acc.major_non_flex, 0)

BeginPass2(f, acc) ==
    [acc EXCEPT !.remaining = Remaining(f, acc),
                !.px_per_flex = FDiv(FFromInt(Remaining(f, acc)), acc.flex_sum)]

FlexShareRounded(desired_major, actual_major) ==
    [actual    |-> actual_major,
     remainder |-> FSub(desired_major, FFromInt(actual_major))]

FlexShareDesired(desired_major) ==
    FlexShareRounded(desired_major, FRoundToInt(desired_major))

\* desired_major, actual_major and the remainder carried to the next one
FlexShare(flex_factor, px_per_flex, remainder) ==
    FlexShareDesired(FAdd(FMul(FFromInt(flex_factor), px_per_flex), remainder))

\* major_flex += self.direction.major(child_size)
AddMajorFlex(f, acc, i) ==
    [acc EXCEPT !.major_flex =
        @ + AxisMajor(f.direction, CtxChildSize(acc.children[i].pod))]

Pass2FlexShared(f, acc, i, measure, share) ==
    AddMajorFlex(f,
        MeasureChild(f, [acc EXCEPT !.remainder = IF measure THEN share.remainder ELSE @],
                     i, measure,
                     AxisConstraints(f.direction, BcLoosen(acc.bc), 0, share.actual)),
        i)

Pass2Flex(f, acc, i) ==
    Pass2FlexShared(f, acc, i,
                    MeasureFlex(acc.any_changed, acc.children[i].pod),
                    FlexShare(acc.children[i].flex, acc.px_per_flex, acc.remainder))

Pass2FlexedSpacerShared(acc, i, share) ==
    [acc EXCEPT !.children[i].calc = share.actual,
                !.remainder = share.remainder,
                !.major_flex = @ + share.actual]

Pass2FlexedSpacer(acc, i) ==
    Pass2FlexedSpacerShared(acc, i,
        FlexShare(acc.children[i].flex, acc.px_per_flex, acc.remainder))

RECURSIVE Pass2(_, _, _)
\* the second loop: the flexible children and the flexible spacers
Pass2(f, acc, i) ==
    IF i > Len(acc.children) THEN acc
    ELSE Pass2(f,
               CASE acc.children[i].kind = "Flex" -> Pass2Flex(f, acc, i)
                 [] acc.children[i].kind = "FlexedSpacer" -> Pass2FlexedSpacer(acc, i)
                 [] OTHER -> acc,
               i + 1)

\* ExtraSpace as if the container always had to fill
ExtraSpaceFilling(fill_major_axis, remaining, min_major, major_non_flex, major_flex) ==
    Max(remaining - major_flex, 0)

\* the extra space on the major axis
ExtraSpace(fill_major_axis, remaining, min_major, major_non_flex, major_flex) ==
    IF fill_major_axis THEN Max(remaining - major_flex, 0)
    ELSE Max(min_major - (major_non_flex + major_flex), 0)

MinorDim(axis, any_use_baseline, max_below_baseline, max_above_baseline, minor) ==
    IF axis = "Horizontal" /\ any_use_baseline
    THEN max_below_baseline + max_above_baseline
    ELSE minor

\* let mut major = spacing.next().unwrap_or(0.)
FirstSpace(acc, sn) ==
    [acc EXCEPT !.spacing = sn.sp, !.major = sn.val, !.spaces = <<sn.val>>]

\* extra, spacing, minor_dim, extra_height
ExtraAndMinor(f, acc) ==
    [acc EXCEPT
        !.extra = ExtraSpace(f.fill_major_axis, acc.remaining,
                             AxisMajor(f.direction, acc.bc.min),
                             acc.major_non_flex, acc.major_flex),
        !.minor_dim = MinorDim(f.direction, acc.any_use_baseline,
                               acc.max_below_baseline, acc.max_above_baseline,
                               acc.minor),
        !.extra_height =
            acc.minor - Min(MinorDim(f.direction, acc.any_use_baseline,
                                     acc.max_below_baseline, acc.max_above_baseline,
                                     acc.minor),
                            acc.minor)]

BeginSpacing(f, acc) ==
    FirstSpace(acc, SpacingNextOrZero(
                        SpacingNew(f.main_alignment, acc.extra, Len(acc.children))))

BeginPass3(f, acc) == BeginSpacing(f, ExtraAndMinor(f, acc))

\* Fill: the child is laid out again, tightly, unless it has that size
FillChild(pod, fill_size) ==
    IF CtxOldSize(pod) # fill_size THEN CtxRunLayout(pod, BcTight(fill_size))
    ELSE pod

\* a widget child in the third loop; sn: what spacing.next() gives after it
PlacedWidget(f, pad, acc, i, sn) ==
    LET child      == acc.children[i]
        child_size == CtxChildSize(child.pod)
        alignment  == EffectiveAlignment(child, f.cross_alignment)
        fill_size  == AxisPack(f.direction, AxisMajor(f.direction, child_size),
                               acc.minor_dim)
        baseline   == alignment = "Baseline" /\ f.direction = "Horizontal"
        fill       == ~baseline /\ alignment = "Fill"
        refill     == fill /\ CtxOldSize(child.pod) # fill_size
        child_minor_offset ==
            IF baseline
            THEN acc.extra_height
                 + (acc.max_above_baseline
                    - (child_size[2] - CtxChildBaselineOffset(child.pod)))
            ELSE IF fill THEN 0
            ELSE CrossAlign(alignment,
                            acc.minor_dim - AxisMinor(f.direction, child_size))
        child_pos  == PaddingPlaceDown(pad,
                          AxisPack(f.direction, acc.major, child_minor_offset))
    IN  [acc EXCEPT
            !.children[i].pod =
                CtxPlaceChild(IF fill THEN FillChild(@, fill_size) ELSE @, child_pos),
            !.major = @ + AxisMajor(f.direction, child_size) + sn.val + acc.gap,
            !.spacing = sn.sp,
            !.spaces = Append(@, sn.val),
            !.log = @ \o (IF refill
                          THEN << <<"run_layout", i, BcTight(fill_size)>> >>
                          ELSE <<>>)
                      \o << <<"place_child", i, child_pos>> >>]

PlaceWidget(f, pad, acc, i) ==
    PlacedWidget(f, pad, acc, i, SpacingNextOrZero(acc.spacing))

\* PlaceSpacer that leaves out the gap
PlaceSpacerNoGap(acc, i) ==
    [acc EXCEPT !.major = @ + acc.children[i].calc]

PlaceSpacer(acc, i) ==
    [acc EXCEPT !.major = @ + acc.children[i].calc + acc.gap]

RECURSIVE Pass3(_, _, _, _)
\* the third loop: placement
Pass3(f, pad, acc, i) ==
    IF i > Len(acc.children) THEN acc
    ELSE Pass3(f, pad,
               IF IsWidget(acc.children[i]) THEN PlaceWidget(f, pad, acc, i)
               ELSE PlaceSpacer(acc, i),
               i + 1)

\* ContainerMajor without the test on flex_sum
ContainerMajorFromChildren(n_children, flex_sum, total_major, gap, major) ==
    IF n_children # 0 THEN major - gap ELSE major

\* the major-axis size of the container
ContainerMajor(n_children, flex_sum, total_major, gap, major) ==
    IF FCmp(flex_sum, MinFlexSum) > 0 THEN total_major
    ELSE IF n_children # 0 THEN major - gap ELSE major

\* MySize that takes the major-axis minimum of the envelope
MySizeOfMinimum(f, acc) ==
    [acc EXCEPT !.my_size =
        AxisPack(f.direction, AxisMajor(f.direction, acc.bc.min), acc.minor_dim)]

MySize(f, acc) ==
    [acc EXCEPT !.my_size =
        AxisPack(f.direction,
                 ContainerMajor(Len(acc.children), acc.flex_sum,
                                AxisMajor(f.direction, acc.bc.max), acc.gap, acc.major),
                 acc.minor_dim)]

\* the container's baseline offset
ContainerBaseline(axis, children, max_below_baseline, my_size) ==
    IF axis = "Horizontal" THEN max_below_baseline
    ELSE IF children = <<>> THEN 0
    ELSE IF IsWidget(children[Len(children)])
    THEN CtxChildBaselineOffset(children[Len(children)].pod)
         + (my_size[2] - CtxChildMaxY(children[Len(children)].pod))
    ELSE 0

\* padding.layout_up: the size returned and the baseline set
LayoutUp(f, pad, acc) ==
    [acc EXCEPT
        !.size = PaddingLayoutUp(pad, acc.my_size,
                     ContainerBaseline(f.direction, acc.children,
                                       acc.max_below_baseline, acc.my_size)).size,
        !.baseline = PaddingLayoutUp(pad, acc.my_size,
                         ContainerBaseline(f.direction, acc.children,
                                           acc.max_below_baseline, acc.my_size)).baseline]

\* Flex::layout.  f: the Flex, pad: its Padding, ctx_needs_layout: the
\* container's own flag, bc0: the constraints the parent passes.  The
\* result holds the locals at the end; the Flex afterwards has its
\* children and its bc as old_bc.
FlexLayout(f, pad, ctx_needs_layout, bc0) ==
    LayoutUp(f, pad,
      MySize(f,
        Pass3(f, pad,
          BeginPass3(f,
            Pass2(f,
              BeginPass2(f,
                Pass1(f,
                  LayoutStart(f, ctx_needs_layout, bc0, PaddingLayoutDown(pad, bc0)),
                  1)),
              1)),
          1)))

\* flex_sum > MIN_FLEX_SUM at the end of a layout
HasFlex(acc) == FCmp(acc.flex_sum, MinFlexSum) > 0

\* ------------------------------------------------------------------------
\* FlexParams and the construction of children.
\* ------------------------------------------------------------------------
\* flex: Option<f64>
FlexNone == [some |-> FALSE, val |-> 0]

FlexSome(flex) == [some |-> TRUE, val |-> flex]

\* FlexParams::new (where debug_panic! does not panic)
FlexParamsNew(flex, alignment) ==
    [flex      |-> IF flex.some /\ flex.val <= 0 THEN FlexSome(0) ELSE flex,
     alignment |-> alignment]

\* a whole number is a normal f64 unless it is zero
IsNormal(flex) == flex # 0

NewFlexChild(params, pod) ==
    IF params.flex.some /\ IsNormal(params.flex.val) /\ params.flex.val > 0
    THEN ChildFlex(pod, params.alignment, params.flex.val)
    ELSE ChildFixed(pod, params.alignment)

\* the child of with_spacer, add_spacer and insert_spacer
NewSpacer(len) == ChildFixedSpacer(Max(len, 0), 0)

\* the child of with_flex_spacer, add_flex_spacer and insert_flex_spacer
\* (where debug_panic! does not panic)
NewFlexSpacer(flex) == ChildFlexedSpacer(IF flex >= 0 THEN flex ELSE 0, 0)

\* Flex::for_axis
ForAxis(axis) ==
    [direction       |-> axis,
     children        |-> <<>>,
     cross_alignment |-> "Center",
     main_alignment  |-> "Start",
     fill_major_axis |-> FALSE,
     old_bc          |-> BcTight(<<0, 0>>),
     gap             |-> GapNone]

\* InsertAt that puts the child last
InsertAtEnd(seq, idx, x) == Append(seq, x)

\* Vec::insert
InsertAt(seq, idx, x) ==
    SubSeq(seq, 1, idx) \o <<x>> \o SubSeq(seq, idx + 1, Len(seq))

\* Vec::remove
RemoveAt(seq, idx) ==
    SubSeq(seq, 1, idx) \o SubSeq(seq, idx + 2, Len(seq))

\* ------------------------------------------------------------------------
\* The state: a Flex widget (flex), its Padding property, the layout flag
\* the context keeps for it (ctx_needs_layout), the locals at the end of the
\* last call of Flex::layout (last; fresh: nothing has touched the
\* container since), the last mutator called and the child it named
\* (touched), whether a call has panicked, and a Spacing iterator with
\* what it has yielded.  view to inbox are the state of a Task view and
\* the last three the state of a Fork view, each described with its
\* operations.
\* ------------------------------------------------------------------------
VARIABLES flex, padding, ctx_needs_layout, last, fresh, layouts, edits, touched,
          panicked, sp, sp_out, view, join_handle, tasks, rebuilds, inbox,
          fork, view_path, fork_calls

flexVars == <<flex, padding, ctx_needs_layout, last, fresh, layouts, edits,
              touched, panicked, sp, sp_out>>

taskVars == <<view, join_handle, tasks, rebuilds, inbox>>

forkVars == <<fork, view_path, fork_calls>>

vars == <<flex, padding, ctx_needs_layout, last, fresh, layouts, edits, touched,
          panicked, sp, sp_out, view, join_handle, tasks, rebuilds, inbox,
          fork, view_path, fork_calls>>

\* bounds of the model
MaxChildren == 2
MaxBuilt == 3
MaxLayouts == 2
MaxEdits == 1
MaxN == 5
MaxExtra == 39
MaxRebuilds == 2
MaxPolls == 2
MaxMessages == 2
MaxPathId == 2
MaxPathLen == 2

\* the widgets a container is given: a small box with a baseline, and a
\* greedy one that takes all the room it is offered
WidgetSet ==
    {[pref |-> <<30, 10>>, pbl |-> 4],
     [pref |-> <<500, 500>>, pbl |-> 0]}

PodOf(w) == NewPod(w.pref, w.pbl)

\* the constraints a parent passes to a container it lays out first
BcSet ==
    {[min |-> <<0, 0>>, max |-> <<200, 100>>],
     [min |-> <<150, 40>>, max |-> <<200, 100>>]}

\* the Padding property of such a container
PaddingSet == {0, 4}

\* the constraints of the incremental specification
RelayoutBcSet ==
    {[min |-> <<0, 0>>, max |-> <<200, 100>>],
     [min |-> <<0, 0>>, max |-> <<101, 61>>]}

ParamSet ==
    {FlexParamsNew(FlexSome(1), None),
     FlexParamsNew(FlexNone, "Fill"),
     FlexParamsNew(FlexSome(1), "Baseline")}

SpacerLenSet == {5}

SpacerFlexSet == {1}

NoLayout ==
    LayoutStart(ForAxis("Horizontal"), FALSE, BcTight(<<0, 0>>), BcTight(<<0, 0>>))

NoTouch == [op |-> "none", idx |-> 0, method |-> "none"]

IdleSpacing == SpacingNew("Start", 0, 0)

\* ------------------------------------------------------------------------
\* Operations
\* ------------------------------------------------------------------------
\* the layout pass reaches the container with constraints bc0
Layout(bc0) ==
    /\ layouts < MaxLayouts
    /\ ~panicked
    /\ last' = FlexLayout(flex, padding, ctx_needs_layout, bc0)
    /\ flex' = [flex EXCEPT !.children = last'.children, !.old_bc = last'.bc]
    /\ ctx_needs_layout' = FALSE
    /\ fresh' = TRUE
    /\ layouts' = layouts + 1
    /\ touched' = NoTouch
    /\ UNCHANGED <<padding, edits, panicked, sp, sp_out>>
    /\ UNCHANGED taskVars
    /\ UNCHANGED forkVars

\* MutatorCalls where only the methods that change the children ask
MutatorCallsForChildren(method, children) ==
    IF method \in {"set_direction", "set_cross_axis_alignment",
                   "set_main_axis_alignment", "set_must_fill_main_axis",
                   "set_gap", "use_default_gap", "set_raw_gap"}
    THEN {}
    ELSE {"children_changed"}

\* the calls a WidgetMut method makes on this.ctx before it returns;
\* children: the children it finds
MutatorCalls(method, children) ==
    CASE method \in {"add_child", "add_flex_child", "insert_child",
                     "insert_flex_child", "update_child_flex_params",
                     "update_spacer_flex", "update_spacer_fixed"}
             -> {"children_changed"}
      [] method = "clear" -> IF children # <<>> THEN {"request_layout"} ELSE {}
      [] method = "child_mut" -> {}
      [] OTHER -> {"request_layout"}

\* what a mutator that returns leaves behind, besides the Flex it changed:
\* the context records a request for layout (request_layout,
\* children_changed).  A WidgetMut exists for a mounted widget, which has
\* been laid out.  op: the kind of change, idx: the child it names (from
\* 0), method: the method called, calls: its calls on the context.
Edited(new_flex, op, idx, method, calls) ==
    /\ edits < MaxEdits
    /\ 0 < layouts /\ layouts < MaxLayouts
    /\ ~panicked
    /\ flex' = new_flex
    /\ ctx_needs_layout' = (ctx_needs_layout \/ calls # {})
    /\ fresh' = FALSE
    /\ edits' = edits + 1
    /\ touched' = [op |-> op, idx |-> idx, method |-> method]
    /\ UNCHANGED <<padding, last, layouts, panicked, sp, sp_out>>
    /\ UNCHANGED taskVars
    /\ UNCHANGED forkVars

\* a mutator that panics: the call does not return; new_flex is the Flex
\* at the panic
Panicked(new_flex, idx, method) ==
    /\ edits < MaxEdits
    /\ 0 < layouts /\ layouts < MaxLayouts
    /\ ~panicked
    /\ flex' = new_flex
    /\ panicked' = TRUE
    /\ edits' = edits + 1
    /\ touched' = [op |-> "panic", idx |-> idx, method |-> method]
    /\ UNCHANGED <<padding, ctx_needs_layout, last, fresh, layouts, sp, sp_out>>
    /\ UNCHANGED taskVars
    /\ UNCHANGED forkVars

\* VecInsertPanics that refuses the index one past the last child too
VecInsertPanicsAtEnd(len, idx) == idx >= len

\* Vec::insert(idx, _) panics
VecInsertPanics(len, idx) == idx > len

\* children[idx] and Vec::remove(idx) panic
VecIndexPanics(len, idx) == idx >= len

\* Flex::child_mut, and what the caller does with the child it gets: the
\* child changes what it asks for and requests layout, which marks its
\* ancestors as well.  For a spacer child_mut returns None.
ChildRequestLayout(idx, w) ==
    IF VecIndexPanics(Len(flex.children), idx)
    THEN Panicked(flex, idx, "child_mut")
    ELSE IF IsWidget(flex.children[idx + 1])
    THEN Edited([flex EXCEPT !.children[idx + 1].pod =
                    [@ EXCEPT !.pref = w.pref, !.pbl = w.pbl, !.needs_layout = TRUE]],
                "child", idx, "child_mut", {"request_layout"})
    ELSE Edited(flex, "none", idx, "child_mut",
                MutatorCalls("child_mut", flex.children))

AddChild(w) ==
    /\ Len(flex.children) < MaxChildren
    /\ Edited([flex EXCEPT !.children = Append(@, ChildFixed(PodOf(w), None))],
              "insert", Len(flex.children), "add_child",
              MutatorCalls("add_child", flex.children))

AddFlexChild(w, params) ==
    /\ Len(flex.children) < MaxChildren
    /\ Edited([flex EXCEPT !.children = Append(@, NewFlexChild(params, PodOf(w)))],
              "insert", Len(flex.children), "add_flex_child",
              MutatorCalls("add_flex_child", flex.children))

AddSpacer(len) ==
    /\ Len(flex.children) < MaxChildren
    /\ Edited([flex EXCEPT !.children = Append(@, NewSpacer(len))],
              "insert", Len(flex.children), "add_spacer",
              MutatorCalls("add_spacer", flex.children))

AddDefaultSpacer ==
    /\ Len(flex.children) < MaxChildren
    /\ Edited([flex EXCEPT !.children =
                  Append(@, NewSpacer(AxisDefaultSpacer(flex.direction)))],
              "insert", Len(flex.children), "add_default_spacer",
              MutatorCalls("add_spacer", flex.children)
              \cup MutatorCalls("add_default_spacer", flex.children))

\* debug_panic! panics in a build with debug assertions and logs an error
\* in one without: a negative flex does the one or the other
AddFlexSpacer(f) ==
    \E debug_assertions \in BOOLEAN :
        IF debug_assertions /\ ~(f >= 0)
        THEN Panicked(flex, Len(flex.children), "add_flex_spacer")
        ELSE /\ Len(flex.children) < MaxChildren
             /\ Edited([flex EXCEPT !.children = Append(@, NewFlexSpacer(f))],
                       "insert", Len(flex.children), "add_flex_spacer",
                       MutatorCalls("add_flex_spacer", flex.children))

InsertChild(idx, w) ==
    IF VecInsertPanics(Len(flex.children), idx)
    THEN Panicked(flex, idx, "insert_child")
    ELSE /\ Len(flex.children) < MaxChildren
         /\ Edited([flex EXCEPT !.children =
                       InsertAt(@, idx, ChildFixed(PodOf(w), None))],
                   "insert", idx, "insert_child",
                   MutatorCalls("insert_child", flex.children))

InsertFlexChild(idx, w, params) ==
    IF VecInsertPanics(Len(flex.children), idx)
    THEN Panicked(flex, idx, "insert_flex_child")
    ELSE /\ Len(flex.children) < MaxChildren
         /\ Edited([flex EXCEPT !.children =
                       InsertAt(@, idx, NewFlexChild(params, PodOf(w)))],
                   "insert", idx, "insert_flex_child",
                   MutatorCalls("insert_flex_child", flex.children))

InsertSpacer(idx, len) ==
    IF VecInsertPanics(Len(flex.children), idx)
    THEN Panicked(flex, idx, "insert_spacer")
    ELSE /\ Len(flex.children) < MaxChildren
         /\ Edited([flex EXCEPT !.children = InsertAt(@, idx, NewSpacer(len))],
                   "insert", idx, "insert_spacer",
                   MutatorCalls("insert_spacer", flex.children))

InsertDefaultSpacer(idx) ==
    IF VecInsertPanics(Len(flex.children), idx)
    THEN Panicked(flex, idx, "insert_default_spacer")
    ELSE /\ Len(flex.children) < MaxChildren
         /\ Edited([flex EXCEPT !.children =
                       InsertAt(@, idx, NewSpacer(AxisDefaultSpacer(flex.direction)))],
                   "insert", idx, "insert_default_spacer",
                   MutatorCalls("insert_spacer", flex.children)
                   \cup MutatorCalls("insert_default_spacer", flex.children))

InsertFlexSpacer(idx, f) ==
    \E debug_assertions \in BOOLEAN :
        IF (debug_assertions /\ ~(f >= 0)) \/ VecInsertPanics(Len(flex.children), idx)
        THEN Panicked(flex, idx, "insert_flex_spacer")
        ELSE /\ Len(flex.children) < MaxChildren
             /\ Edited([flex EXCEPT !.children = InsertAt(@, idx, NewFlexSpacer(f))],
                       "insert", idx, "insert_flex_spacer",
                       MutatorCalls("insert_flex_spacer", flex.children))

RemoveChild(idx) ==
    IF VecIndexPanics(Len(flex.children), idx)
    THEN Panicked(flex, idx, "remove_child")
    ELSE Edited([flex EXCEPT !.children = RemoveAt(@, idx)], "remove", idx,
                "remove_child", MutatorCalls("remove_child", flex.children))

\* on a spacer the method panics after it has put FixedSpacer(0.0, 0.0)
\* in the child's place
UpdateChildFlexParams(idx, params) ==
    IF VecIndexPanics(Len(flex.children), idx)
    THEN Panicked(flex, idx, "update_child_flex_params")
    ELSE IF IsWidget(flex.children[idx + 1])
    THEN Edited([flex EXCEPT !.children[idx + 1] = NewFlexChild(params, @.pod)],
                "reweight", idx, "update_child_flex_params",
                MutatorCalls("update_child_flex_params", flex.children))
    ELSE Panicked([flex EXCEPT !.children[idx + 1] = ChildFixedSpacer(0, 0)],
                  idx, "update_child_flex_params")

UpdateSpacerFlex(idx, f) ==
    IF VecIndexPanics(Len(flex.children), idx) \/ IsWidget(flex.children[idx + 1])
    THEN Panicked(flex, idx, "update_spacer_flex")
    ELSE Edited([flex EXCEPT !.children[idx + 1] = ChildFlexedSpacer(f, 0)],
                "reweight", idx, "update_spacer_flex",
                MutatorCalls("update_spacer_flex", flex.children))

UpdateSpacerFixed(idx, len) ==
    IF VecIndexPanics(Len(flex.children), idx) \/ IsWidget(flex.children[idx + 1])
    THEN Panicked(flex, idx, "update_spacer_fixed")
    ELSE Edited([flex EXCEPT !.children[idx + 1] = ChildFixedSpacer(len, 0)],
                "reweight", idx, "update_spacer_fixed",
                MutatorCalls("update_spacer_fixed", flex.children))

Clear ==
    Edited([flex EXCEPT !.children = <<>>], "clear", 0, "clear",
           MutatorCalls("clear", flex.children))

\* an f64 a caller passes for the gap: a whole number, NaN or an infinity
F64(n) == [class |-> "finite", val |-> n]

F64NaN == [class |-> "nan", val |-> 0]

F64Infinity == [class |-> "inf", val |-> 0]

\* GapIsValid without the test of the sign
GapIsFinite(gap) == gap.class = "finite"

\* gap.is_finite() && gap >= 0.0
GapIsValid(gap) == gap.class = "finite" /\ gap.val >= 0

SetDirection(direction) ==
    Edited([flex EXCEPT !.direction = direction], "set", 0, "set_direction",
           MutatorCalls("set_direction", flex.children))

SetCrossAxisAlignment(alignment) ==
    Edited([flex EXCEPT !.cross_alignment = alignment], "set", 0,
           "set_cross_axis_alignment",
           MutatorCalls("set_cross_axis_alignment", flex.children))

SetMainAxisAlignment(alignment) ==
    Edited([flex EXCEPT !.main_alignment = alignment], "set", 0,
           "set_main_axis_alignment",
           MutatorCalls("set_main_axis_alignment", flex.children))

SetMustFillMainAxis(fill) ==
    Edited([flex EXCEPT !.fill_major_axis = fill], "set", 0,
           "set_must_fill_main_axis",
           MutatorCalls("set_must_fill_main_axis", flex.children))

SetGap(gap) ==
    IF GapIsValid(gap)
    THEN Edited([flex EXCEPT !.gap = GapSome(gap.val)], "set", 0, "set_gap",
                MutatorCalls("set_gap", flex.children))
    ELSE Panicked(flex, 0, "set_gap")

UseDefaultGap ==
    Edited([flex EXCEPT !.gap = GapNone], "set", 0, "use_default_gap",
           MutatorCalls("use_default_gap", flex.children))

\* gap: GapNone or GapSome of a value that is not validated
SetRawGap(gap) ==
    Edited([flex EXCEPT !.gap = gap], "set", 0, "set_raw_gap",
           MutatorCalls("set_raw_gap", flex.children))

\* a builder method, called on a Flex that is not mounted yet: it returns
\* the Flex it was given, changed
BuilderCall(new_flex, method) ==
    /\ edits < MaxEdits
    /\ layouts = 0
    /\ ~panicked
    /\ flex' = new_flex
    /\ edits' = edits + 1
    /\ touched' = [op |-> "build", idx |-> 0, method |-> method]
    /\ UNCHANGED <<padding, ctx_needs_layout, last, fresh, layouts, panicked,
                   sp, sp_out>>
    /\ UNCHANGED taskVars
    /\ UNCHANGED forkVars

\* a builder method that panics
BuilderPanic(method) ==
    /\ edits < MaxEdits
    /\ layouts = 0
    /\ ~panicked
    /\ panicked' = TRUE
    /\ edits' = edits + 1
    /\ touched' = [op |-> "panic", idx |-> 0, method |-> method]
    /\ UNCHANGED <<flex, padding, ctx_needs_layout, last, fresh, layouts, sp, sp_out>>
    /\ UNCHANGED taskVars
    /\ UNCHANGED forkVars

\* Flex::gap
Gap(gap) ==
    IF GapIsValid(gap)
    THEN BuilderCall([flex EXCEPT !.gap = GapSome(gap.val)], "gap")
    ELSE BuilderPanic("gap")

\* Flex::raw_gap
RawGap(gap) == BuilderCall([flex EXCEPT !.gap = gap], "raw_gap")

\* ------------------------------------------------------------------------
\* Construction: the builder methods, applied to Flex::row() or
\* Flex::column() before the widget is mounted.
\* ------------------------------------------------------------------------
\* Flex::with_child (with_child_pod)
WithChild(f, w) ==
    [f EXCEPT !.children = Append(@, ChildFixed(PodOf(w), None))]

\* Flex::with_flex_child (with_flex_child_pod)
WithFlexChild(f, w, params) ==
    [f EXCEPT !.children = Append(@, NewFlexChild(params, PodOf(w)))]

\* Flex::with_spacer: len.clamp(0.0, f64::MAX)
WithSpacer(f, len) ==
    [f EXCEPT !.children = Append(@, ChildFixedSpacer(IF len < 0 THEN 0 ELSE len, 0))]

\* Flex::with_default_spacer
WithDefaultSpacer(f) == WithSpacer(f, AxisDefaultSpacer(f.direction))

\* Flex::with_flex_spacer (where debug_panic! does not panic)
WithFlexSpacer(f, flex_factor) ==
    [f EXCEPT !.children =
        Append(@, ChildFlexedSpacer(IF flex_factor >= 0 THEN flex_factor ELSE 0, 0))]

WithChildren(f, children) == [f EXCEPT !.children = children]

\* the children with_child, with_flex_child, with_spacer, with_default_spacer
\* and with_flex_spacer push
BuiltChildSet(axis) ==
    {ChildFixed(PodOf(w), None) : w \in WidgetSet}
    \cup {NewFlexChild(p, PodOf(w)) : p \in ParamSet, w \in WidgetSet}
    \cup {NewSpacer(len) : len \in SpacerLenSet \cup {AxisDefaultSpacer(axis)}}
    \cup {NewFlexSpacer(f) : f \in SpacerFlexSet}

RECURSIVE SeqsUpTo(_, _)
\* the sequences over S of length at most n
SeqsUpTo(S, n) ==
    IF n = 0 THEN {<<>>}
    ELSE SeqsUpTo(S, n - 1)
         \cup {Append(q, x) : q \in SeqsUpTo(S, n - 1), x \in S}

\* the containers the incremental specification starts from
BuiltFlexSet ==
    UNION {{WithChildren(ForAxis(axis), children) :
               children \in SeqsUpTo(BuiltChildSet(axis), MaxChildren)} :
           axis \in Axis}

\* the variables besides flex and the Spacing iterator, before any layout
\* and before a Task view is built
Unlaid ==
    /\ ctx_needs_layout = TRUE
    /\ last = NoLayout
    /\ fresh = FALSE
    /\ layouts = 0
    /\ edits = 0
    /\ touched = NoTouch
    /\ panicked = FALSE
    /\ view = "unbuilt"
    /\ join_handle = 0
    /\ tasks = <<>>
    /\ rebuilds = 0
    /\ inbox = 0
    /\ fork = "unbuilt"
    /\ view_path = <<>>
    /\ fork_calls = <<>>

Init ==
    /\ flex \in BuiltFlexSet
    /\ padding = 0
    /\ Unlaid
    /\ sp = IdleSpacing
    /\ sp_out = <<>>

IndexSet == 0 .. MaxChildren

Next ==
    \/ \E bc0 \in RelayoutBcSet : Layout(bc0)
    \/ \E idx \in IndexSet, w \in WidgetSet : ChildRequestLayout(idx, w)
    \/ \E w \in WidgetSet : AddChild(w)
    \/ \E w \in WidgetSet, params \in ParamSet : AddFlexChild(w, params)
    \/ \E len \in SpacerLenSet : AddSpacer(len)
    \/ AddDefaultSpacer
    \/ \E f \in SpacerFlexSet : AddFlexSpacer(f)
    \/ \E idx \in IndexSet, w \in WidgetSet : InsertChild(idx, w)
    \/ \E idx \in IndexSet, w \in WidgetSet, params \in ParamSet :
           InsertFlexChild(idx, w, params)
    \/ \E idx \in IndexSet, len \in SpacerLenSet : InsertSpacer(idx, len)
    \/ \E idx \in IndexSet : InsertDefaultSpacer(idx)
    \/ \E idx \in IndexSet, f \in SpacerFlexSet : InsertFlexSpacer(idx, f)
    \/ \E idx \in IndexSet : RemoveChild(idx)
    \/ \E idx \in IndexSet, params \in ParamSet : UpdateChildFlexParams(idx, params)
    \/ \E idx \in IndexSet, f \in SpacerFlexSet : UpdateSpacerFlex(idx, f)
    \/ \E idx \in IndexSet, len \in SpacerLenSet : UpdateSpacerFixed(idx, len)
    \/ Clear

Spec == Init /\ [][Next]_vars

\* ------------------------------------------------------------------------
\* The first layout of a container, over the builder's settings: the six
\* main-axis alignments, must_fill_main_axis, the gap, both directions.
\* ------------------------------------------------------------------------
\* the children of the row scenario: fixed 50, flex 1, fixed 30, flex 2
ScenarioChildren(w1, w2) ==
    <<ChildFixed(NewPod(<<50, 20>>, 0), None),
      NewFlexChild(FlexParamsNew(FlexSome(1), None), PodOf(w1)),
      ChildFixed(NewPod(<<30, 20>>, 0), None),
      NewFlexChild(FlexParamsNew(FlexSome(2), None), PodOf(w2))>>

LayoutChildSet ==
    {ChildFixed(NewPod(<<30, 10>>, 4), None),
     NewFlexChild(FlexParamsNew(FlexSome(1), None), NewPod(<<30, 10>>, 4)),
     NewSpacer(5),
     NewFlexSpacer(1)}

GapSet == {GapNone, GapSome(0)}

\* Flex::for_axis(axis).main_axis_alignment(a).must_fill_main_axis(fill)
\*     .raw_gap(gap) and the with_* calls for children
Built(axis, a, fill, gap, children) ==
    [ForAxis(axis) EXCEPT !.main_alignment = a, !.fill_major_axis = fill,
                          !.gap = gap, !.children = children]

LayoutFlexSet ==
    {Built(axis, a, fill, gap, children) :
        axis \in Axis, a \in MainAxisAlignment, fill \in BOOLEAN, gap \in GapSet,
        children \in SeqsUpTo(LayoutChildSet, MaxBuilt)}

InitLayout ==
    /\ flex \in LayoutFlexSet
    /\ padding \in PaddingSet
    /\ Unlaid
    /\ sp = IdleSpacing
    /\ sp_out = <<>>

FirstLayout(bc0) == layouts = 0 /\ Layout(bc0)

NextLayout == \E bc0 \in BcSet : FirstLayout(bc0)

SpecLayout == InitLayout /\ [][NextLayout]_vars

\* ------------------------------------------------------------------------
\* The first layout of the row [fixed 50, flex 1, fixed 30, flex 2] with
\* gap 0, whatever the two flexible widgets, the alignment and
\* must_fill_main_axis are.
\* ------------------------------------------------------------------------
ScenarioFlexSet ==
    {Built("Horizontal", a, fill, GapSome(0), ScenarioChildren(w1, w2)) :
        a \in MainAxisAlignment, fill \in BOOLEAN,
        w1 \in WidgetSet, w2 \in WidgetSet}

InitScenario ==
    /\ flex \in ScenarioFlexSet
    /\ padding \in PaddingSet
    /\ Unlaid
    /\ sp = IdleSpacing
    /\ sp_out = <<>>

NextScenario == \E bc0 \in BcSet \cup RelayoutBcSet : FirstLayout(bc0)

SpecScenario == InitScenario /\ [][NextScenario]_vars

\* ------------------------------------------------------------------------
\* The whole public interface of a small container: the builder's gap
\* methods before the first layout, then every WidgetMut method with
\* arguments in and out of range, and the layout after it.
\* ------------------------------------------------------------------------
ApiWidgetSet == {[pref |-> <<30, 10>>, pbl |-> 4]}

ApiIndexSet == 0 .. MaxChildren + 1

\* FlexParams::new(1.0, None), FlexParams::new(-1.0, None) and
\* FlexParams::new(None, None)
ApiParamSet ==
    {FlexParamsNew(FlexSome(1), None),
     FlexParamsNew(FlexSome(-1), None),
     FlexParamsNew(FlexNone, None)}

ApiLenSet == {-3, 5}

ApiWeightSet == {-1, 0, 2}

ApiGapSet == {F64(-2), F64(0), F64(3), F64NaN, F64Infinity}

ApiRawGapSet == {GapNone, GapSome(-2), GapSome(3)}

ApiBcSet == {[min |-> <<0, 0>>, max |-> <<200, 100>>]}

ApiFlexSet ==
    {WithChildren(ForAxis(axis), children) :
        axis \in Axis, children \in SeqsUpTo(LayoutChildSet, MaxBuilt)}

InitApi ==
    /\ flex \in ApiFlexSet
    /\ padding = 0
    /\ Unlaid
    /\ sp = IdleSpacing
    /\ sp_out = <<>>

NextApi ==
    \/ \E bc0 \in ApiBcSet : Layout(bc0)
    \/ \E gap \in ApiGapSet : Gap(gap)
    \/ \E gap \in ApiRawGapSet : RawGap(gap)
    \/ \E direction \in Axis : SetDirection(direction)
    \/ \E alignment \in CrossAxisAlignment : SetCrossAxisAlignment(alignment)
    \/ \E alignment \in MainAxisAlignment : SetMainAxisAlignment(alignment)
    \/ \E fill \in BOOLEAN : SetMustFillMainAxis(fill)
    \/ \E gap \in ApiGapSet : SetGap(gap)
    \/ UseDefaultGap
    \/ \E gap \in ApiRawGapSet : SetRawGap(gap)
    \/ \E idx \in ApiIndexSet, w \in ApiWidgetSet : ChildRequestLayout(idx, w)
    \/ \E w \in ApiWidgetSet : AddChild(w)
    \/ \E w \in ApiWidgetSet, params \in ApiParamSet : AddFlexChild(w, params)
    \/ \E len \in ApiLenSet : AddSpacer(len)
    \/ AddDefaultSpacer
    \/ \E f \in ApiWeightSet : AddFlexSpacer(f)
    \/ \E idx \in ApiIndexSet, w \in ApiWidgetSet : InsertChild(idx, w)
    \/ \E idx \in ApiIndexSet, w \in ApiWidgetSet, params \in ApiParamSet :
           InsertFlexChild(idx, w, params)
    \/ \E idx \in ApiIndexSet, len \in ApiLenSet : InsertSpacer(idx, len)
    \/ \E idx \in ApiIndexSet : InsertDefaultSpacer(idx)
    \/ \E idx \in ApiIndexSet, f \in ApiWeightSet : InsertFlexSpacer(idx, f)
    \/ \E idx \in ApiIndexSet : RemoveChild(idx)
    \/ \E idx \in ApiIndexSet, params \in ApiParamSet :
           UpdateChildFlexParams(idx, params)
    \/ \E idx \in ApiIndexSet, f \in ApiWeightSet : UpdateSpacerFlex(idx, f)
    \/ \E idx \in ApiIndexSet, len \in ApiLenSet : UpdateSpacerFixed(idx, len)
    \/ Clear

SpecApi == InitApi /\ [][NextApi]_vars

\* ------------------------------------------------------------------------
\* The first layout of a small container, with any default cross-axis
\* alignment, under three envelopes: a wide one, a narrow one, and one
\* with minimums.
\* ------------------------------------------------------------------------
EnvelopeBcSet ==
    {[min |-> <<0, 0>>, max |-> <<20000, 20000>>],
     [min |-> <<0, 0>>, max |-> <<200, 100>>],
     [min |-> <<150, 40>>, max |-> <<200, 100>>]}

EnvelopeFlexSet ==
    {[Built(axis, "Start", fill, GapSome(0), children)
          EXCEPT !.cross_alignment = alignment] :
        axis \in Axis, fill \in BOOLEAN, alignment \in CrossAxisAlignment,
        children \in SeqsUpTo(LayoutChildSet, MaxChildren)}

InitEnvelope ==
    /\ flex \in EnvelopeFlexSet
    /\ padding = 0
    /\ Unlaid
    /\ sp = IdleSpacing
    /\ sp_out = <<>>

NextEnvelope == \E bc0 \in EnvelopeBcSet : FirstLayout(bc0)

SpecEnvelope == InitEnvelope /\ [][NextEnvelope]_vars

\* ------------------------------------------------------------------------
\* The Spacing iterator on its own: Spacing::new on any alignment, extra
\* and child count, then next() until it returns None.
\* ------------------------------------------------------------------------
InitSpacing ==
    /\ flex = ForAxis("Horizontal")
    /\ padding = 0
    /\ Unlaid
    /\ \E a \in MainAxisAlignment, extra \in 0 .. MaxExtra, n \in 0 .. MaxN :
           sp = SpacingNew(a, extra, n)
    /\ sp_out = <<>>

SpacingStep ==
    /\ ~SpacingExhausted(sp)
    /\ sp' = SpacingNext(sp).sp
    /\ sp_out' = Append(sp_out, SpacingNext(sp).val)
    /\ UNCHANGED <<flex, padding, ctx_needs_layout, last, fresh, layouts, edits,
                   touched, panicked>>
    /\ UNCHANGED taskVars
    /\ UNCHANGED forkVars

NextSpacing == SpacingStep

SpecSpacing == InitSpacing /\ [][NextSpacing]_vars

\* ------------------------------------------------------------------------
\* The Task view (xilem/src/view/task.rs) and the runtime it spawns on.
\* view: where the view is in its life (build, rebuilds, teardown);
\* join_handle: its ViewState, the JoinHandle of the task it spawned (0:
\* none yet); tasks: the tasks of the runtime (state: idle between polls,
\* polling, complete, cancelled; abort: JoinHandle::abort was called;
\* polls: how often the future was polled); rebuilds: how often the view
\* was rebuilt; inbox: the messages sent through the MessageProxy and not
\* yet given to Task::message.
\* ------------------------------------------------------------------------
NewTask == [state |-> "idle", abort |-> FALSE, polls |-> 0]

\* Runtime::spawn: the new task and its JoinHandle
Spawn(ts) == [tasks |-> Append(ts, NewTask), handle |-> Len(ts) + 1]

\* Abort that does nothing
AbortNothing(ts, handle) == ts

\* JoinHandle::abort: the task is marked; the runtime cancels it when it
\* is not in a poll
Abort(ts, handle) == [ts EXCEPT ![handle].abort = TRUE]

\* Task::build
TaskBuild ==
    /\ view = "unbuilt"
    /\ view' = "built"
    /\ tasks' = Spawn(tasks).tasks
    /\ join_handle' = Spawn(tasks).handle
    /\ UNCHANGED <<rebuilds, inbox>>
    /\ UNCHANGED flexVars
    /\ UNCHANGED forkVars

\* Task::rebuild: nothing to do
TaskRebuild ==
    /\ view = "built"
    /\ rebuilds < MaxRebuilds
    /\ rebuilds' = rebuilds + 1
    /\ UNCHANGED <<view, join_handle, tasks, inbox>>
    /\ UNCHANGED flexVars
    /\ UNCHANGED forkVars

\* Task::teardown
TaskTeardown ==
    /\ view = "built"
    /\ view' = "torn"
    /\ tasks' = Abort(tasks, join_handle)
    /\ UNCHANGED <<join_handle, rebuilds, inbox>>
    /\ UNCHANGED flexVars
    /\ UNCHANGED forkVars

\* Task::message: on_event is called with a message the future sent
TaskMessage ==
    /\ view = "built"
    /\ inbox > 0
    /\ inbox' = inbox - 1
    /\ UNCHANGED <<view, join_handle, tasks, rebuilds>>
    /\ UNCHANGED flexVars
    /\ UNCHANGED forkVars

\* the runtime starts a poll of the future of task t
PollBegin(t) ==
    /\ tasks[t].state = "idle"
    /\ ~tasks[t].abort
    /\ tasks[t].polls < MaxPolls
    /\ tasks' = [tasks EXCEPT ![t].state = "polling", ![t].polls = @ + 1]
    /\ UNCHANGED <<view, join_handle, rebuilds, inbox>>
    /\ UNCHANGED flexVars
    /\ UNCHANGED forkVars

\* the future, in a poll, sends a message through its MessageProxy
ProxySend(t) ==
    /\ tasks[t].state = "polling"
    /\ inbox < MaxMessages
    /\ inbox' = inbox + 1
    /\ UNCHANGED <<view, join_handle, tasks, rebuilds>>
    /\ UNCHANGED flexVars
    /\ UNCHANGED forkVars

\* the poll returns: Ready (ready) or Pending
PollEnd(t, ready) ==
    /\ tasks[t].state = "polling"
    /\ tasks' = [tasks EXCEPT ![t].state = IF ready THEN "complete" ELSE "idle"]
    /\ UNCHANGED <<view, join_handle, rebuilds, inbox>>
    /\ UNCHANGED flexVars
    /\ UNCHANGED forkVars

\* the runtime drops the future of an aborted task that is not in a poll
Cancel(t) ==
    /\ tasks[t].state = "idle"
    /\ tasks[t].abort
    /\ tasks' = [tasks EXCEPT ![t].state = "cancelled"]
    /\ UNCHANGED <<view, join_handle, rebuilds, inbox>>
    /\ UNCHANGED flexVars
    /\ UNCHANGED forkVars

InitTask ==
    /\ flex = ForAxis("Horizontal")
    /\ padding = 0
    /\ Unlaid
    /\ sp = IdleSpacing
    /\ sp_out = <<>>

NextTask ==
    \/ TaskBuild
    \/ TaskRebuild
    \/ TaskTeardown
    \/ TaskMessage
    \/ \E t \in 1 .. Len(tasks) : PollBegin(t)
    \/ \E t \in 1 .. Len(tasks) : ProxySend(t)
    \/ \E t \in 1 .. Len(tasks), ready \in BOOLEAN : PollEnd(t, ready)
    \/ \E t \in 1 .. Len(tasks) : Cancel(t)

SpecTask == InitTask /\ [][NextTask]_vars

\* ------------------------------------------------------------------------
\* The Fork view (xilem_core/src/views/fork.rs): it acts as active_view
\* and runs alongside_view next to it.  fork: where the view is in its
\* life; view_path: the path of view ids the context holds when the
\* parent calls the Fork (ViewPathTracker::view_path); fork_calls: what the
\* sub-views were called with, in order (op: the method called; view: the
\* sub-view; path: the context's path inside the call and, for a message,
\* the path the message has travelled to reach the sub-view; rest: the
\* id path handed on with a message).
\* ------------------------------------------------------------------------
\* ViewPathTracker::push_id
PushId(path, id) == Append(path, id)

\* ViewPathTracker::pop_id
PopId(path) == SubSeq(path, 1, Len(path) - 1)

\* ctx.with_id(id, |ctx| sub.op(ctx, ..)): the id is pushed, the sub-view
\* runs and sees the path, the id is popped
WithId(path, id, op, sub) ==
    [view_path |-> PopId(PushId(path, id)),
     call      |-> [op |-> op, view |-> sub, path |-> PushId(path, id),
                    rest |-> <<>>]]

\* the calls of one method made so far
CallsOf(op) == {k \in 1 .. Len(fork_calls) : fork_calls[k].op = op}

\* Fork::build
ForkBuild ==
    /\ fork = "unbuilt"
    /\ fork' = "built"
    /\ LET active    == WithId(view_path, 0, "build", "active_view")
           alongside == WithId(active.view_path, 1, "build", "alongside_view")
       IN  /\ fork_calls' = fork_calls \o <<active.call, alongside.call>>
           /\ view_path' = alongside.view_path
    /\ UNCHANGED flexVars
    /\ UNCHANGED taskVars

\* Fork::rebuild
ForkRebuild ==
    /\ fork = "built"
    /\ Cardinality(CallsOf("rebuild")) < 2 * MaxRebuilds
    /\ LET active    == WithId(view_path, 0, "rebuild", "active_view")
           alongside == WithId(active.view_path, 1, "rebuild", "alongside_view")
       IN  /\ fork_calls' = fork_calls \o <<active.call, alongside.call>>
           /\ view_path' = alongside.view_path
    /\ UNCHANGED fork
    /\ UNCHANGED flexVars
    /\ UNCHANGED taskVars

\* Fork::teardown
ForkTeardown ==
    /\ fork = "built"
    /\ fork' = "torn down"
    /\ LET alongside == WithId(view_path, 0, "teardown", "alongside_view")
           active    == WithId(alongside.view_path, 1, "teardown", "active_view")
       IN  /\ fork_calls' = fork_calls \o <<alongside.call, active.call>>
           /\ view_path' = active.view_path
    /\ UNCHANGED flexVars
    /\ UNCHANGED taskVars

\* the id paths a message can come with: below the Fork, the path one of
\* its sub-views ran under, then any path inside that sub-view
ForkIdPaths ==
    {<<fork_calls[k].path[Len(view_path) + 1]>> \o inner :
        k \in CallsOf("build") \cup CallsOf("rebuild"), inner \in {<<>>, <<0>>}}

\* Fork::message
ForkMessage(id_path) ==
    /\ fork = "built"
    /\ Cardinality(CallsOf("message")) < MaxMessages
    /\ id_path # <<>>
    /\ Head(id_path) \in {0, 1}
    /\ fork_calls' = Append(fork_calls,
           [op   |-> "message",
            view |-> IF Head(id_path) = 0 THEN "active_view" ELSE "alongside_view",
            path |-> PushId(view_path, Head(id_path)),
            rest |-> Tail(id_path)])
    /\ UNCHANGED <<fork, view_path>>
    /\ UNCHANGED flexVars
    /\ UNCHANGED taskVars

\* the paths the Fork itself is reached by
ForkPathSet == SeqsUpTo(0 .. MaxPathId, MaxPathLen)

InitFork ==
    /\ flex = ForAxis("Horizontal")
    /\ padding = 0
    /\ ctx_needs_layout = TRUE
    /\ last = NoLayout
    /\ fresh = FALSE
    /\ layouts = 0
    /\ edits = 0
    /\ touched = NoTouch
    /\ panicked = FALSE
    /\ sp = IdleSpacing
    /\ sp_out = <<>>
    /\ view = "unbuilt"
    /\ join_handle = 0
    /\ tasks = <<>>
    /\ rebuilds = 0
    /\ inbox = 0
    /\ fork = "unbuilt"
    /\ view_path \in ForkPathSet
    /\ fork_calls = <<>>

NextFork ==
    \/ ForkBuild
    \/ ForkRebuild
    \/ ForkTeardown
    \/ \E id_path \in ForkIdPaths : ForkMessage(id_path)

SpecFork == InitFork /\ [][NextFork]_vars

\* ------------------------------------------------------------------------
\* Properties of the first layout (under SpecLayout and SpecScenario)
\* ------------------------------------------------------------------------
\* the children for which the two measuring loops called skip_layout
Skipped(acc) ==
    {acc.log[k][2] : k \in {j \in 1 .. Len(acc.log) : acc.log[j][1] = "skip_layout"}}

\* the major-axis maximum of the constraints run_layout got for child i in
\* the measuring loops
FlexAllocation(f, acc, i) ==
    AxisMajor(f.direction,
              acc.log[CHOOSE k \in 1 .. Len(acc.log) :
                          /\ acc.log[k][1] = "run_layout"
                          /\ acc.log[k][2] = i][3].max)

\* C1: whenever a layout ends with flex_sum above MIN_FLEX_SUM, the size it
\* computes for the content (my_size, before padding is added back) has a
\* major-axis extent equal to the major-axis maximum of the working
\* envelope, whatever the children, gap, alignment and fill_major_axis are.
FillInvariant ==
    (layouts > 0 /\ HasFlex(last)) =>
        AxisMajor(flex.direction, last.my_size)
            = AxisMajor(flex.direction, last.bc.max)

\* a container with flexible weight that does not fill, whose children and
\* gaps take less than the maximum
FillInvariantWitness ==
    /\ layouts > 0
    /\ HasFlex(last)
    /\ ~flex.fill_major_axis
    /\ Len(flex.children) = MaxBuilt
    /\ last.major_non_flex + last.major_flex
           < AxisMajor(flex.direction, last.bc.max)
    /\ AxisMajor(flex.direction, last.my_size)
           = AxisMajor(flex.direction, last.bc.max)

\* the row of the scenario, laid out once under a working envelope whose
\* major-axis maximum is 200
ScenarioLaidOut ==
    /\ layouts = 1
    /\ flex.direction = "Horizontal"
    /\ flex.gap = GapSome(0)
    /\ Len(flex.children) = 4
    /\ flex.children[1].kind = "Fixed" /\ flex.children[1].pod.pref = <<50, 20>>
    /\ flex.children[2].kind = "Flex" /\ flex.children[2].flex = 1
    /\ flex.children[3].kind = "Fixed" /\ flex.children[3].pod.pref = <<30, 20>>
    /\ flex.children[4].kind = "Flex" /\ flex.children[4].flex = 2
    /\ AxisMajor("Horizontal", last.bc.max) = 200

\* C2: the row [fixed 50, flex 1, fixed 30, flex 2] with gap 0 under a
\* major-axis maximum of 200: the fixed total is 80, remaining is 120, the
\* flexible children are measured with major extents 40 and 80, every
\* child starts at or after the end of the one before it, and the content
\* size is 200 on the major axis.
RowScenario ==
    ScenarioLaidOut =>
        /\ last.major_non_flex = 80
        /\ last.remaining = 120
        /\ FlexAllocation(flex, last, 2) = 40
        /\ FlexAllocation(flex, last, 4) = 80
        /\ \A i \in 1 .. 3 :
               flex.children[i].pod.origin[1] + flex.children[i].pod.size[1]
                   <= flex.children[i + 1].pod.origin[1]
        /\ padding <= flex.children[1].pod.origin[1]
        /\ AxisMajor("Horizontal", last.my_size) = 200

\* the scenario with two flexible children that take what they are given
RowScenarioWitness ==
    /\ ScenarioLaidOut
    /\ flex.children[2].pod.size[1] = 40
    /\ flex.children[4].pod.size[1] = 80
    /\ flex.children[4].pod.origin[1] = padding + 120

\* ------------------------------------------------------------------------
\* Properties of repeated layout (under Spec)
\* ------------------------------------------------------------------------
\* what a layout gives: the size returned, the size and origin of every
\* child widget, the calculated length of every spacer
Outputs(acc) ==
    [size    |-> acc.size,
     sizes   |-> [i \in 1 .. Len(acc.children) |-> acc.children[i].pod.size],
     spacers |-> [i \in 1 .. Len(acc.children) |-> acc.children[i].calc],
     origins |-> [i \in 1 .. Len(acc.children) |-> acc.children[i].pod.origin]]

\* C3: a layout that follows a layout with the same constraints, nothing
\* having touched the container in between, gives the same container size,
\* child sizes, spacer lengths and child positions as the first.
IdempotentLayout ==
    [][(fresh /\ layouts' = layouts + 1 /\ last'.bc0 = last.bc0)
           => Outputs(last') = Outputs(last)]_vars

\* C4: the layout that follows an insertion, a removal or a re-weighting
\* calls run_layout, not skip_layout, for the inserted or re-weighted
\* child and for every Flex child.
StructuralInvalidation ==
    [][(layouts' = layouts + 1 /\ touched.op \in {"insert", "remove", "reweight"})
           => /\ (touched.op \in {"insert", "reweight"}
                  /\ IsWidget(flex.children[touched.idx + 1]))
                     => (touched.idx + 1) \notin Skipped(last')
              /\ \A i \in 1 .. Len(flex.children) :
                     flex.children[i].kind = "Flex" => i \notin Skipped(last')]_vars

\* a child measured before child i in this call was found to have changed
\* size: the Fixed children are measured in the first loop, the Flex
\* children in the second
EarlierChanged(acc, i) ==
    \E j \in acc.changed :
        IF acc.children[j].kind = "Fixed"
        THEN acc.children[i].kind = "Flex" \/ j < i
        ELSE acc.children[i].kind = "Flex" /\ j < i

\* C5 as stated: a child is skipped only if its own flag was clear, no
\* child measured earlier in the call changed size and the working
\* envelope is the recorded one; a changed envelope leaves no child skipped.
SkipRuleAsStated ==
    layouts > 0 =>
        /\ \A i \in Skipped(last) :
               /\ i \notin last.dirty
               /\ ~EarlierChanged(last, i)
               /\ ~last.bc_changed
        /\ last.bc_changed => Skipped(last) = {}

\* C5: a Fixed child is skipped only if its own flag was clear and the
\* working envelope is the recorded one; a Flex child only if, besides,
\* the container's own flag was clear and no child measured earlier in the
\* call changed size; a changed envelope leaves no child skipped.
SkipRule ==
    layouts > 0 =>
        /\ \A i \in Skipped(last) :
               /\ i \notin last.dirty
               /\ ~last.bc_changed
               /\ last.children[i].kind = "Flex"
                      => (~last.needs_layout /\ ~EarlierChanged(last, i))
        /\ last.bc_changed => Skipped(last) = {}

\* a Fixed child skipped in a call that found an earlier child changed
SkipRuleWitness ==
    /\ layouts > 0
    /\ \E i \in Skipped(last) :
           last.children[i].kind = "Fixed" /\ EarlierChanged(last, i)

\* the container as built anew from the same children: no widget laid out
\* yet, no spacer length calculated, old_bc as Flex::for_axis leaves it
Scratch(f) ==
    [f EXCEPT
        !.old_bc = ForAxis(f.direction).old_bc,
        !.children =
            [i \in 1 .. Len(f.children) |->
                IF IsWidget(f.children[i])
                THEN [f.children[i] EXCEPT
                         !.pod = NewPod(f.children[i].pod.pref, f.children[i].pod.pbl)]
                ELSE [f.children[i] EXCEPT !.calc = 0]]]

\* the major-axis extent of every Flex child and flexible spacer, the
\* container size and the child positions
Allocations(f, acc) ==
    [alloc   |-> [i \in 1 .. Len(acc.children) |->
                     IF acc.children[i].kind = "Flex"
                     THEN AxisMajor(f.direction, acc.children[i].pod.size)
                     ELSE IF acc.children[i].kind = "FlexedSpacer"
                     THEN acc.children[i].calc
                     ELSE 0],
     size    |-> acc.size,
     origins |-> [i \in 1 .. Len(acc.children) |-> acc.children[i].pod.origin]]

\* C6: a layout that skipped some child gives every Flex child and flexible
\* spacer the major-axis extent, the container the size and every child
\* the position that a layout from scratch of the same children under the
\* same constraints gives.
IncrementalMatchesScratch ==
    (fresh /\ Skipped(last) # {}) =>
        Allocations(flex, last)
            = Allocations(flex, FlexLayout(Scratch(flex), padding, TRUE, last.bc0))

\* ------------------------------------------------------------------------
\* Properties of the Spacing iterator (under SpecSpacing).
\* ------------------------------------------------------------------------
\* the rule of next_space applied k times to a share, from a remainder:
\* desired = share + remainder, emitted = round(desired), remainder =
\* desired - emitted
RECURSIVE CarrySeq(_, _, _)
RECURSIVE CarrySeqAfter(_, _, _)
CarrySeq(share, remainder, k) ==
    IF k = 0 THEN <<>>
    ELSE CarrySeqAfter(share, FlexShareDesired(FAdd(share, remainder)), k)

CarrySeqAfter(share, r, k) == <<r.actual>> \o CarrySeq(share, r.remainder, k - 1)

\* extra / d as an f64
Share(extra, d) == FDiv(FFromInt(extra), FFromInt(d))

\* half-shares h1 .. h2n to the n + 1 positions: h1, h2 + h3, .., h2n
HalfSharesJoined(h, n) ==
    [k \in 1 .. n + 1 |->
        IF k = 1 THEN h[1]
        ELSE IF k = n + 1 THEN h[2 * n]
        ELSE h[2 * k - 2] + h[2 * k - 1]]

\* C7: once the iterator is exhausted it has yielded exactly n + 1 values,
\* and they sum to extra (a whole number, so round(extra) = extra), for
\* every alignment, every n in 0 .. MaxN and every extra in 0 .. MaxExtra.
SpacingSumIsExtra ==
    /\ Len(sp_out) <= sp.n_children + 1
    /\ SpacingExhausted(sp) =>
          /\ Len(sp_out) = sp.n_children + 1
          /\ SumSeq(sp_out) = sp.extra

SpacingSumWitness ==
    /\ SpacingExhausted(sp)
    /\ sp.alignment = "SpaceAround" /\ sp.extra = 39 /\ sp.n_children = 5
    /\ Len(sp_out) = 6 /\ SumSeq(sp_out) = 39

\* what Start, End and Center put at position k (from 0) for n >= 1
EdgePolicyValue(alignment, extra, n, k) ==
    CASE alignment = "Start" -> IF k = n THEN extra ELSE 0
      [] alignment = "End" -> IF k = 0 THEN extra ELSE 0
      [] alignment = "Center" ->
            IF k = 0 THEN CarrySeq(Share(extra, 2), FZero, 2)[1]
            ELSE IF k = n THEN CarrySeq(Share(extra, 2), FZero, 2)[2]
            ELSE 0

\* C8: for n >= 1, Start yields extra at position n and 0 elsewhere, End
\* yields extra at position 0 and 0 elsewhere, Center yields the two
\* halves of extra (rounded with the carried remainder) at positions 0 and
\* n and 0 elsewhere, so Center with extra 17 and n 3 yields 9, 0, 0, 8;
\* for n = 0 every alignment yields the single value extra.
EdgePolicies ==
    /\ sp.n_children = 0 => \A k \in 1 .. Len(sp_out) : sp_out[k] = sp.extra
    /\ sp.n_children >= 1 /\ sp.alignment \in {"Start", "End", "Center"} =>
          \A k \in 1 .. Len(sp_out) :
              sp_out[k] = EdgePolicyValue(sp.alignment, sp.extra, sp.n_children, k - 1)
    /\ sp.alignment = "Center" /\ sp.n_children >= 1 /\ SpacingExhausted(sp) =>
          /\ sp_out[1] = (sp.extra + 1) \div 2
          /\ sp_out[sp.n_children + 1] = sp.extra \div 2
    /\ sp.alignment = "Center" /\ sp.extra = 17 /\ sp.n_children = 3
       /\ SpacingExhausted(sp) => sp_out = <<9, 0, 0, 8>>

EdgePoliciesWitness ==
    /\ SpacingExhausted(sp)
    /\ sp.alignment = "Center" /\ sp.extra = 17 /\ sp.n_children = 3
    /\ sp_out = <<9, 0, 0, 8>>

\* what SpaceBetween yields for n >= 1
SpaceBetweenSeq(extra, n) ==
    IF n = 1 THEN <<0, extra>>
    ELSE <<0>> \o CarrySeq(Share(extra, n - 1), FZero, n - 1) \o <<0>>

\* C9: for n >= 2 SpaceBetween yields 0 at positions 0 and n and, at the
\* n - 1 positions between, extra / (n - 1) rounded with the carried
\* remainder (extra 10, n 3: 0, 5, 5, 0; extra 33, n 5: 0, 8, 9, 8, 8, 0);
\* for n = 1 it yields 0 and then extra.
SpaceBetweenRule ==
    /\ sp.alignment = "SpaceBetween" /\ sp.n_children >= 1 =>
          sp_out = SubSeq(SpaceBetweenSeq(sp.extra, sp.n_children), 1, Len(sp_out))
    /\ sp.alignment = "SpaceBetween" /\ SpacingExhausted(sp) =>
          /\ sp.extra = 10 /\ sp.n_children = 3 => sp_out = <<0, 5, 5, 0>>
          /\ sp.extra = 33 /\ sp.n_children = 5 => sp_out = <<0, 8, 9, 8, 8, 0>>
          /\ sp.n_children = 1 => sp_out = <<0, sp.extra>>

SpaceBetweenWitness ==
    /\ SpacingExhausted(sp)
    /\ sp.alignment = "SpaceBetween" /\ sp.extra = 33 /\ sp.n_children = 5
    /\ sp_out = <<0, 8, 9, 8, 8, 0>>

\* what SpaceEvenly and SpaceAround yield for n >= 1
SpaceEvenlySeq(extra, n) == CarrySeq(Share(extra, n + 1), FZero, n + 1)

SpaceAroundSeq(extra, n) ==
    HalfSharesJoined(CarrySeq(Share(extra, 2 * n), FZero, 2 * n), n)

\* C10: SpaceEvenly yields, at each of the n + 1 positions, one share
\* extra / (n + 1) rounded by the remainder-carry rule; SpaceAround yields
\* half-shares extra / (2n) rounded by that rule, one at each edge and the
\* sum of two consecutive ones at each position between; so
\* SpaceEvenly(10, 2) = 3, 4, 3, SpaceAround(10, 2) = 3, 5, 2 and
\* SpaceAround(39, 5) = 4, 8, 7, 8, 8, 4.
SpaceEvenlyAroundRule ==
    /\ sp.alignment = "SpaceEvenly" /\ sp.n_children >= 1 =>
          sp_out = SubSeq(SpaceEvenlySeq(sp.extra, sp.n_children), 1, Len(sp_out))
    /\ sp.alignment = "SpaceAround" /\ sp.n_children >= 1 =>
          sp_out = SubSeq(SpaceAroundSeq(sp.extra, sp.n_children), 1, Len(sp_out))
    /\ SpacingExhausted(sp) =>
          /\ sp.alignment = "SpaceEvenly" /\ sp.extra = 10 /\ sp.n_children = 2
                => sp_out = <<3, 4, 3>>
          /\ sp.alignment = "SpaceAround" /\ sp.extra = 10 /\ sp.n_children = 2
                => sp_out = <<3, 5, 2>>
          /\ sp.alignment = "SpaceAround" /\ sp.extra = 39 /\ sp.n_children = 5
                => sp_out = <<4, 8, 7, 8, 8, 4>>

SpaceEvenlyAroundWitness ==
    /\ SpacingExhausted(sp)
    /\ sp.alignment = "SpaceAround" /\ sp.extra = 39 /\ sp.n_children = 5
    /\ sp_out = <<4, 8, 7, 8, 8, 4>>

\* ------------------------------------------------------------------------
\* Properties of the public interface (under SpecApi)
\* ------------------------------------------------------------------------
\* C11: in every call of Flex::layout the divisor of px_per_flex, flex_sum,
\* is strictly positive.
FlexSumPositive == layouts > 0 => FCmp(last.flex_sum, FZero) > 0

\* C12: every Flex child and every flexible spacer the container stores
\* has a finite, strictly positive weight.
WeightInvariant ==
    \A i \in 1 .. Len(flex.children) :
        flex.children[i].kind \in {"Flex", "FlexedSpacer"}
            => flex.children[i].flex > 0

\* ------------------------------------------------------------------------
\* Properties of the passes of one layout (under SpecLayout)
\* ------------------------------------------------------------------------
\* the major-axis extent a layout leaves a child with
ChildExtent(f, child) ==
    IF IsWidget(child) THEN AxisMajor(f.direction, CtxChildSize(child.pod))
    ELSE child.calc

\* the children's extents and the gaps between them, summed
TotalExtent(f, acc) ==
    SumSeq([i \in 1 .. Len(acc.children) |-> ChildExtent(f, acc.children[i])])
    + Max(Len(acc.children) - 1, 0) * acc.gap

\* C13: without fill_major_axis the extra space given to Spacing::new is
\* max(0, min_major - (the children's extents and gaps)); it is 0 whenever
\* these reach the minimum, whatever the maximum offered.
ExtraWithoutFill ==
    (layouts > 0 /\ ~flex.fill_major_axis)
        => /\ last.extra = Max(0, AxisMajor(flex.direction, last.bc.min)
                                  - TotalExtent(flex, last))
           /\ last.spacing.extra = last.extra
           /\ TotalExtent(flex, last) >= AxisMajor(flex.direction, last.bc.min)
                  => last.extra = 0

\* a column that does not fill, whose children reach the minimum height
\* and leave room below the maximum
ExtraWithoutFillWitness ==
    /\ layouts > 0
    /\ ~flex.fill_major_axis
    /\ flex.direction = "Vertical"
    /\ AxisMajor(flex.direction, last.bc.min) > 0
    /\ TotalExtent(flex, last) >= AxisMajor(flex.direction, last.bc.min)
    /\ TotalExtent(flex, last) < AxisMajor(flex.direction, last.bc.max)
    /\ last.extra = 0

\* ------------------------------------------------------------------------
\* Properties of the order of the passes (under Spec)
\* ------------------------------------------------------------------------
\* the places in the log where child i is measured or skipped, and placed
MeasuredAt(acc, i) ==
    {k \in 1 .. Len(acc.log) :
        acc.log[k][1] \in {"run_layout", "skip_layout"} /\ acc.log[k][2] = i}

PlacedAt(acc, i) ==
    {k \in 1 .. Len(acc.log) : acc.log[k][1] = "place_child" /\ acc.log[k][2] = i}

\* the children of one kind, by position
OfKind(acc, kinds) == {i \in 1 .. Len(acc.children) : acc.children[i].kind \in kinds}

\* what the fixed children, the fixed spacers and the gaps take together
FixedTotal(f, acc) ==
    SumSeq([i \in 1 .. Len(acc.children) |->
               IF acc.children[i].kind \in {"Fixed", "FixedSpacer"}
               THEN ChildExtent(f, acc.children[i]) ELSE 0])
    + Max(Len(acc.children) - 1, 0) * acc.gap

RECURSIVE WeightSum(_, _, _)
\* MIN_FLEX_SUM and the weights of the flexible children and spacers from
\* the i-th on, added in order
WeightSum(children, i, sum) ==
    IF i > Len(children) THEN sum
    ELSE WeightSum(children, i + 1,
                   IF children[i].kind \in {"Flex", "FlexedSpacer"}
                   THEN FAdd(sum, FFromInt(children[i].flex)) ELSE sum)

RECURSIVE FlexShares(_, _, _, _)
\* weight * px_per_flex + carried remainder, rounded, for the flexible
\* children and spacers from the i-th on: position :> share
FlexShares(children, i, px, remainder) ==
    IF i > Len(children) THEN <<>>
    ELSE IF children[i].kind \in {"Flex", "FlexedSpacer"}
    THEN LET desired == FAdd(FMul(FFromInt(children[i].flex), px), remainder)
         IN  <<FRoundToInt(desired)>>
             \o FlexShares(children, i + 1, px,
                           FSub(desired, FFromInt(FRoundToInt(desired))))
    ELSE FlexShares(children, i + 1, px, remainder)

\* the first of a set of places in the log
FirstOf(S) == CHOOSE k \in S : \A m \in S : k <= m

RECURSIVE FlexGiven(_, _, _)
\* what the layout gave the flexible children and spacers from the i-th
\* on, in order
FlexGiven(f, acc, i) ==
    IF i > Len(acc.children) THEN <<>>
    ELSE IF acc.children[i].kind = "Flex"
    THEN <<FlexAllocation(f, acc, i)>> \o FlexGiven(f, acc, i + 1)
    ELSE IF acc.children[i].kind = "FlexedSpacer"
    THEN <<acc.children[i].calc>> \o FlexGiven(f, acc, i + 1)
    ELSE FlexGiven(f, acc, i + 1)

\* C14: in one layout every Fixed child is measured or skipped before any
\* Flex child is, every child is measured or skipped before any child is
\* placed, and what the flexible children and spacers are given is their
\* share of what all the fixed children, fixed spacers and gaps leave of
\* the maximum, those after them in the sequence included.
PassOrdering ==
    layouts > 0 =>
        /\ \A i \in OfKind(last, {"Fixed", "Flex"}) :
               MeasuredAt(last, i) # {} /\ PlacedAt(last, i) # {}
        /\ \A i \in OfKind(last, {"Fixed"}), j \in OfKind(last, {"Flex"}) :
               FirstOf(MeasuredAt(last, i)) < FirstOf(MeasuredAt(last, j))
        /\ \A i \in OfKind(last, {"Fixed", "Flex"}), j \in OfKind(last, {"Fixed", "Flex"}) :
               FirstOf(MeasuredAt(last, i)) < FirstOf(PlacedAt(last, j))
        /\ last.remaining
               = Max(AxisMajor(flex.direction, last.bc.max) - FixedTotal(flex, last), 0)
        /\ Skipped(last) \cap OfKind(last, {"Flex"}) = {}
               => FlexGiven(flex, last, 1)
                      = FlexShares(last.children, 1,
                            FDiv(FFromInt(Max(AxisMajor(flex.direction, last.bc.max)
                                              - FixedTotal(flex, last), 0)),
                                 WeightSum(last.children, 1, MinFlexSum)),
                            FZero)

\* a layout of a Flex child that comes before a Fixed child
PassOrderingWitness ==
    /\ layouts > 0
    /\ \E i \in OfKind(last, {"Flex"}), j \in OfKind(last, {"Fixed"}) :
           /\ i < j
           /\ FlexAllocation(flex, last, i)
                  < AxisMajor(flex.direction, last.bc.max)
           /\ ChildExtent(flex, last.children[j]) > 0

\* ------------------------------------------------------------------------
\* Properties of the mutators and builders (under SpecApi)
\* ------------------------------------------------------------------------
\* C15 as stated: in every reachable state the gap is unset or a finite
\* non-negative number, whichever of gap, set_gap, raw_gap and set_raw_gap
\* set it.
GapNeverInvalid == flex.gap.some => flex.gap.val >= 0

\* C15: gap and set_gap called with a negative or non-finite value panic
\* and leave the Flex as it was, and with any other value store it; a
\* negative gap is stored only by raw_gap and set_raw_gap, which store
\* what they are given.
GapValidation ==
    [][/\ \A gap \in ApiGapSet :
              (Gap(gap) \/ SetGap(gap))
                  => IF gap.class = "finite" /\ gap.val >= 0
                     THEN ~panicked' /\ flex'.gap = GapSome(gap.val)
                     ELSE panicked' /\ flex' = flex
       /\ \A gap \in ApiRawGapSet :
              (RawGap(gap) \/ SetRawGap(gap)) => ~panicked' /\ flex'.gap = gap
       /\ (flex'.gap.some /\ flex'.gap.val < 0 /\ flex'.gap # flex.gap)
              => touched'.method \in {"raw_gap", "set_raw_gap"}]_vars

\* set_gap has panicked on the value it was given
GapValidationWitness == panicked /\ touched.method = "set_gap"

\* the new child is the last one and the others are as they were
Appended(before, after) ==
    Len(after) = Len(before) + 1 /\ SubSeq(after, 1, Len(before)) = before

\* C16: insert_child, insert_flex_child, insert_spacer and
\* insert_flex_spacer panic when idx > len and append when idx = len;
\* remove_child, child_mut, update_child_flex_params, update_spacer_flex
\* and update_spacer_fixed panic when idx >= len.  A call that panics has
\* not returned; none of these calls returns having done nothing.
IndexFailsLoudly ==
    [][\A idx \in ApiIndexSet :
           /\ (\/ \E w \in ApiWidgetSet : InsertChild(idx, w)
               \/ \E w \in ApiWidgetSet, params \in ApiParamSet :
                      InsertFlexChild(idx, w, params)
               \/ \E len \in ApiLenSet : InsertSpacer(idx, len)
               \/ \E f \in ApiWeightSet : f >= 0 /\ InsertFlexSpacer(idx, f))
                  => /\ idx > Len(flex.children) => panicked'
                     /\ idx = Len(flex.children)
                            => ~panicked' /\ Appended(flex.children, flex'.children)
                     /\ ~panicked' => flex'.children # flex.children
           /\ (\/ RemoveChild(idx)
               \/ \E w \in ApiWidgetSet : ChildRequestLayout(idx, w)
               \/ \E params \in ApiParamSet : UpdateChildFlexParams(idx, params)
               \/ \E f \in ApiWeightSet : UpdateSpacerFlex(idx, f)
               \/ \E len \in ApiLenSet : UpdateSpacerFixed(idx, len))
                  => (idx >= Len(flex.children) => panicked')]_vars

\* an insert_* call has panicked on an index past the end
IndexFailsLoudlyWitness ==
    /\ panicked
    /\ touched.method \in {"insert_child", "insert_flex_child", "insert_spacer",
                           "insert_flex_spacer"}
    /\ touched.idx > Len(flex.children)

\* the WidgetMut methods of Flex that change the container
MutatorMethods ==
    {"set_direction", "set_cross_axis_alignment", "set_main_axis_alignment",
     "set_must_fill_main_axis", "set_gap", "use_default_gap", "set_raw_gap",
     "add_child", "add_flex_child", "add_default_spacer", "add_spacer",
     "add_flex_spacer", "insert_child", "insert_flex_child",
     "insert_default_spacer", "insert_spacer", "insert_flex_spacer",
     "remove_child", "update_child_flex_params", "update_spacer_flex",
     "update_spacer_fixed", "clear"}

\* C17: when a mutator returns (clear: on a container that had children),
\* a request for layout is pending for the container; and no call that
\* returns changes the Flex without one pending.
MutatorsRequestLayout ==
    [][/\ (/\ edits' = edits + 1
           /\ ~panicked'
           /\ touched'.method \in MutatorMethods
           /\ ~(touched'.method = "clear" /\ flex.children = <<>>))
              => ctx_needs_layout'
       /\ (layouts > 0 /\ layouts' = layouts /\ ~panicked' /\ flex' # flex)
              => ctx_needs_layout']_vars

\* a setter has returned on a container whose last layout had cleared the
\* request
MutatorsRequestLayoutWitness ==
    /\ layouts > 0
    /\ touched.method = "set_main_axis_alignment"
    /\ ~panicked
    /\ ctx_needs_layout

\* ------------------------------------------------------------------------
\* Properties of the layout after a mutator (under SpecApi)
\* ------------------------------------------------------------------------
\* where on the major axis the layout placed child i
PlacedMajor(f, acc, i) ==
    AxisMajor(f.direction, acc.log[FirstOf(PlacedAt(acc, i))][3])

\* C18: in every layout a fixed spacer takes max(0, its stored length) of
\* the major axis: that is what is added to the non-flexible total, and
\* with a gap that is not negative a widget that follows another with
\* only fixed spacers between them is placed at or after the other's end.
SpacerLengthClamped ==
    fresh =>
        /\ \A i \in OfKind(last, {"FixedSpacer"}) :
               last.children[i].calc = Max(0, last.children[i].len)
        /\ last.major_non_flex
               = SumSeq([i \in 1 .. Len(last.children) |->
                            CASE last.children[i].kind = "Fixed"
                                     -> ChildExtent(flex, last.children[i])
                              [] last.children[i].kind = "FixedSpacer"
                                     -> Max(0, last.children[i].len)
                              [] OTHER -> 0])
                 + Max(Len(last.children) - 1, 0) * last.gap
        /\ \A a \in OfKind(last, {"Fixed", "Flex"}), b \in OfKind(last, {"Fixed", "Flex"}) :
               (/\ a < b
                /\ last.gap >= 0
                /\ \A i \in (a + 1) .. (b - 1) : last.children[i].kind = "FixedSpacer")
                   => PlacedMajor(flex, last, b)
                          >= PlacedMajor(flex, last, a)
                             + ChildExtent(flex, last.children[a])

\* a layout of a container with a fixed spacer of negative length between
\* two widgets
SpacerLengthClampedWitness ==
    /\ fresh
    /\ \E i \in OfKind(last, {"FixedSpacer"}) :
           /\ last.children[i].len < 0
           /\ last.children[i].calc = 0
           /\ 1 < i /\ i < Len(last.children)
           /\ IsWidget(last.children[i - 1]) /\ IsWidget(last.children[i + 1])

\* what the container stores of a child, apart from what layout computes:
\* its kind, weight, length, alignment and widget
Shape(child) ==
    [kind |-> child.kind, flex |-> child.flex, len |-> child.len,
     alignment |-> child.alignment,
     widget |-> <<child.pod.pref, child.pod.pbl>>]

\* after has the only child of built at idx (from 0) and the children of
\* before around it, in their order
Inserted(before, after, idx, built) ==
    /\ Len(built.children) = 1
    /\ Len(after) = Len(before) + 1
    /\ \A j \in 1 .. Len(after) :
           Shape(after[j]) = IF j <= idx THEN Shape(before[j])
                             ELSE IF j = idx + 1 THEN Shape(built.children[1])
                             ELSE Shape(before[j - 1])

\* after is before without its child at idx (from 0)
Removed(before, after, idx) ==
    /\ Len(after) = Len(before) - 1
    /\ \A j \in 1 .. Len(after) :
           Shape(after[j]) = IF j <= idx THEN Shape(before[j])
                             ELSE Shape(before[j + 1])

ViewTask == tasks[join_handle]

MeasureBc(acc, i) == acc.log[FirstOf(MeasuredAt(acc, i))][3]

\* the children run_layout was called for in the measuring loops
Measured(acc) == {i \in OfKind(acc, {"Fixed", "Flex"}) : i \notin Skipped(acc)}

\* the place of child i among the flexible children and spacers
FlexRank(acc, i) == Cardinality({j \in OfKind(acc, {"Flex", "FlexedSpacer"}) : j <= i})

\* the rounded allocation (actual_major) of the flexible child or spacer i
\* in a layout that skips nothing
ActualMajor(acc, i) ==
    FlexShares(acc.children, 1, acc.px_per_flex, FZero)[FlexRank(acc, i)]

\* C21 as stated: a Flex child measured in the second loop is handed
\* constraints whose major-axis minimum and maximum are both the rounded
\* allocation, and whose cross-axis minimum is 0 and maximum that of the
\* working envelope.
FlexChildConstraintFixed ==
    (layouts > 0 /\ Skipped(last) = {}) =>
        \A i \in OfKind(last, {"Flex"}) :
            /\ AxisMajor(flex.direction, MeasureBc(last, i).min) = ActualMajor(last, i)
            /\ AxisMajor(flex.direction, MeasureBc(last, i).max) = ActualMajor(last, i)
            /\ AxisMinor(flex.direction, MeasureBc(last, i).min) = 0
            /\ AxisMinor(flex.direction, MeasureBc(last, i).max)
                   = AxisMinor(flex.direction, last.bc.max)

\* C21: a Flex child measured in the second loop is handed constraints
\* whose major-axis maximum is the rounded allocation and whose major-axis
\* minimum is 0, and whose cross-axis minimum is 0 and maximum that of the
\* working envelope.
FlexChildConstraint ==
    (layouts > 0 /\ Skipped(last) = {}) =>
        \A i \in OfKind(last, {"Flex"}) :
            /\ AxisMajor(flex.direction, MeasureBc(last, i).min) = 0
            /\ AxisMajor(flex.direction, MeasureBc(last, i).max) = ActualMajor(last, i)
            /\ AxisMinor(flex.direction, MeasureBc(last, i).min) = 0
            /\ AxisMinor(flex.direction, MeasureBc(last, i).max)
                   = AxisMinor(flex.direction, last.bc.max)

\* a Flex child, after a flexible spacer, that takes less of the major
\* axis than it is allocated, under an envelope with a cross-axis minimum
FlexChildConstraintWitness ==
    /\ layouts > 0
    /\ Skipped(last) = {}
    /\ AxisMinor(flex.direction, last.bc.min) > 0
    /\ \E i \in OfKind(last, {"Flex"}) :
           /\ FlexRank(last, i) > 1
           /\ ActualMajor(last, i) > ChildExtent(flex, last.children[i])
           /\ ChildExtent(flex, last.children[i]) > 0

\* the rounded allocations of the flexible children and spacers, summed
AllocatedTotal(f, acc) == SumSeq(FlexGiven(f, acc, 1))

\* C22: in a layout that skips no child and has a flexible child or
\* spacer, the rounded allocations of the flexible children and spacers
\* sum to remaining = max(0, total_major - non-flexible total) to within
\* one rounding unit.
AllocationSum ==
    (fresh /\ Skipped(last) = {} /\ OfKind(last, {"Flex", "FlexedSpacer"}) # {})
        => /\ last.remaining
                  = Max(0, AxisMajor(flex.direction, last.bc.max) - last.major_non_flex)
           /\ AllocatedTotal(flex, last) - last.remaining <= 1
           /\ last.remaining - AllocatedTotal(flex, last) <= 1

\* ------------------------------------------------------------------------
\* Properties of the cross axis (under Spec and SpecLayout)
\* ------------------------------------------------------------------------
\* the effective cross alignment of the widget child i
AlignmentOf(f, acc, i) == EffectiveAlignment(acc.children[i], f.cross_alignment)

\* the widget children whose effective alignment is Baseline
BaselineChildren(f, acc) ==
    {i \in OfKind(acc, {"Fixed", "Flex"}) : AlignmentOf(f, acc, i) = "Baseline"}

\* C23: after a layout of a horizontal container with a widget child
\* whose effective cross alignment is Baseline, measured or skipped,
\* minor_dim is max_below_baseline + max_above_baseline; after any other
\* layout it is the running minor maximum, which is at least the
\* envelope's cross-axis minimum.
CrossSizeResolution ==
    fresh =>
        IF flex.direction = "Horizontal" /\ BaselineChildren(flex, last) # {}
        THEN last.minor_dim = last.max_below_baseline + last.max_above_baseline
        ELSE /\ last.minor_dim = last.minor
             /\ last.minor >= AxisMinor(flex.direction, last.bc.min)

\* how far above its baseline the widget child i reaches
AboveBaseline(acc, i) ==
    CtxChildSize(acc.children[i].pod)[2] - CtxChildBaselineOffset(acc.children[i].pod)

\* where on the cross axis the layout placed child i, inside the padding
PlacedMinor(f, pad, acc, i) ==
    AxisMinor(f.direction, acc.log[FirstOf(PlacedAt(acc, i))][3]) - pad

ExtraSpaceInserted ==
    (fresh /\ ~flex.fill_major_axis /\ OfKind(last, {"Flex", "FlexedSpacer"}) = {})
        => /\ SumSeq(last.spaces) = last.extra
           /\ AxisMajor(flex.direction, last.my_size)
                  = last.major_non_flex + last.extra
           /\ AxisMajor(flex.direction, last.my_size)
                  >= AxisMajor(flex.direction, last.bc.min)

\* the major-axis span of the widget child i in the content's coordinates
SpanStart(f, pad, acc, i) == PlacedMajor(f, acc, i) - pad

SpanEnd(f, pad, acc, i) ==
    PlacedMajor(f, acc, i) - pad + ChildExtent(f, acc.children[i])

\* no child and no spacer has a negative major-axis extent, and the gap is
\* not negative
NonNegativeExtents(f, acc) ==
    /\ acc.gap >= 0
    /\ \A i \in 1 .. Len(acc.children) : ChildExtent(f, acc.children[i]) >= 0

\* the fixed children, the fixed spacers and the gaps fit the major-axis
\* maximum offered
FixedFits(f, acc) == acc.major_non_flex <= AxisMajor(f.direction, acc.bc.max)

\* C26 as stated: after a layout with non-negative child sizes the
\* major-axis span of every placed child lies within [0, the content's
\* major-axis size], also when flexible weight is present and the fixed
\* children and gaps exceed the major-axis maximum offered.
MajorContainmentAlways ==
    (fresh /\ NonNegativeExtents(flex, last)) =>
        \A i \in OfKind(last, {"Fixed", "Flex"}) :
            /\ 0 <= SpanStart(flex, padding, last, i)
            /\ SpanEnd(flex, padding, last, i) <= AxisMajor(flex.direction, last.my_size)

\* C26: after a layout with non-negative child and spacer extents and a
\* non-negative gap, the major-axis span of every placed child starts at
\* or after 0; without flexible weight it ends at or before the content's
\* major-axis size; with flexible weight the content's major-axis size is
\* the maximum offered, and the span ends no more than one rounding unit
\* after it provided the fixed children, fixed spacers and gaps fit that
\* maximum.
MajorContainment ==
    (fresh /\ NonNegativeExtents(flex, last)) =>
        \A i \in OfKind(last, {"Fixed", "Flex"}) :
            /\ 0 <= SpanStart(flex, padding, last, i)
            /\ ~HasFlex(last)
                   => SpanEnd(flex, padding, last, i)
                          <= AxisMajor(flex.direction, last.my_size)
            /\ HasFlex(last)
                   => /\ AxisMajor(flex.direction, last.my_size)
                             = AxisMajor(flex.direction, last.bc.max)
                      /\ FixedFits(flex, last)
                             => SpanEnd(flex, padding, last, i)
                                    <= AxisMajor(flex.direction, last.my_size) + 1

\* a layout with flexible weight whose fixed children fit, and whose last
\* child, a flexible one after a fixed one, ends at the content's end
MajorContainmentWitness ==
    /\ fresh
    /\ NonNegativeExtents(flex, last)
    /\ HasFlex(last)
    /\ FixedFits(flex, last)
    /\ Len(last.children) = 2
    /\ last.children[1].kind = "Fixed"
    /\ last.children[2].kind = "Flex"
    /\ SpanStart(flex, padding, last, 2) > 0
    /\ SpanEnd(flex, padding, last, 2) = AxisMajor(flex.direction, last.my_size)

\* the cross-axis size of the widget child i
ChildMinor(f, acc, i) == AxisMinor(f.direction, CtxChildSize(acc.children[i].pod))

\* C27: after a layout every widget child is placed at a cross-axis
\* offset that is not negative, and ends on the cross axis at or before
\* the content's cross-axis size (minor_dim), whatever its effective
\* alignment, the direction and the envelope's cross-axis minimum.
CrossContainment ==
    fresh =>
        \A i \in OfKind(last, {"Fixed", "Flex"}) :
            /\ 0 <= PlacedMinor(flex, padding, last, i)
            /\ PlacedMinor(flex, padding, last, i) + ChildMinor(flex, last, i)
                   <= AxisMinor(flex.direction, last.my_size)

\* the place of the widget child i among the widget children
WidgetRank(acc, i) == Cardinality({j \in OfKind(acc, {"Fixed", "Flex"}) : j <= i})

\* what the spacers from the a-th child to the b-th take, each with the
\* gap after it
SpacerAdvance(acc, a, b) ==
    SumSeq([k \in 1 .. Len(acc.children) |->
               IF a <= k /\ k <= b /\ ~IsWidget(acc.children[k])
               THEN acc.children[k].calc + acc.gap ELSE 0])

\* the widget children a and b with no widget child between them
NextWidgets(acc) ==
    {ab \in OfKind(acc, {"Fixed", "Flex"}) \X OfKind(acc, {"Fixed", "Flex"}) :
        /\ ab[1] < ab[2]
        /\ \A k \in (ab[1] + 1) .. (ab[2] - 1) : ~IsWidget(acc.children[k])}

\* C28: after a layout with non-negative child and spacer extents, every
\* spacing value added to the cursor is >= 0; the first widget is placed
\* after the first spacing value and the spacers before it; a widget is
\* placed at the position of the widget before it plus that widget's
\* extent, the spacing value after it and the gap, plus the length and
\* the gap of every spacer between the two, and so at or after the
\* earlier widget's position plus its extent plus the gap.
NoOverlap ==
    (fresh /\ \A i \in 1 .. Len(last.children) : ChildExtent(flex, last.children[i]) >= 0)
        => /\ last.extra >= 0
           /\ \A k \in 1 .. Len(last.spaces) : last.spaces[k] >= 0
           /\ \A b \in OfKind(last, {"Fixed", "Flex"}) :
                  WidgetRank(last, b) = 1
                      => SpanStart(flex, padding, last, b)
                             = last.spaces[1] + SpacerAdvance(last, 1, b)
           /\ \A ab \in NextWidgets(last) :
                  /\ PlacedMajor(flex, last, ab[2])
                         = PlacedMajor(flex, last, ab[1])
                           + ChildExtent(flex, last.children[ab[1]])
                           + last.spaces[WidgetRank(last, ab[1]) + 1]
                           + last.gap
                           + SpacerAdvance(last, ab[1], ab[2])
                  /\ PlacedMajor(flex, last, ab[2])
                         >= PlacedMajor(flex, last, ab[1])
                            + ChildExtent(flex, last.children[ab[1]])
                            + last.gap

\* a layout with extra space that puts a spacing value and a spacer
\* between two widgets
NoOverlapWitness ==
    /\ fresh
    /\ last.extra > 0
    /\ last.gap > 0
    /\ Len(last.children) = 3
    /\ IsWidget(last.children[1])
    /\ last.children[2].kind = "FixedSpacer"
    /\ IsWidget(last.children[3])
    /\ last.spaces[2] > 0
    /\ PlacedMajor(flex, last, 3)
           > PlacedMajor(flex, last, 1) + ChildExtent(flex, last.children[1])
             + last.spaces[2] + last.gap

\* ------------------------------------------------------------------------
\* Properties of the calls on the layout context (under Spec)
\* ------------------------------------------------------------------------
\* the widget children
Widgets(acc) == OfKind(acc, {"Fixed", "Flex"})

\* the calls of the two measuring loops: one for each widget child
MeasuringCalls(acc) == 1 .. Cardinality(Widgets(acc))

\* C29: in every layout the two measuring loops make exactly one call,
\* run_layout or skip_layout, for each widget child; the placement loop
\* makes exactly one place_child call for it, after every run_layout and
\* skip_layout for it, and at most one run_layout before that, only for a
\* child whose effective alignment is Fill; no call names a spacer.
LayoutProtocol ==
    fresh =>
        /\ Len(last.log) >= Cardinality(Widgets(last))
        /\ \A k \in 1 .. Len(last.log) :
               /\ last.log[k][2] \in Widgets(last)
               /\ k \in MeasuringCalls(last)
                      <=> (last.log[k][1] = "skip_layout"
                           \/ (last.log[k][1] = "run_layout"
                               /\ last.log[k][3].min = <<0, 0>>))
        /\ \A i \in Widgets(last) :
               /\ Cardinality(MeasuredAt(last, i) \cap MeasuringCalls(last)) = 1
               /\ Cardinality(MeasuredAt(last, i) \ MeasuringCalls(last)) <= 1
               /\ \A k \in MeasuredAt(last, i) \ MeasuringCalls(last) :
                      /\ last.log[k][1] = "run_layout"
                      /\ AlignmentOf(flex, last, i) = "Fill"
               /\ Cardinality(PlacedAt(last, i)) = 1
               /\ \A k \in MeasuredAt(last, i), p \in PlacedAt(last, i) : k < p

\* a layout that skips one child and lays out another twice, the second
\* time to fill the cross axis
LayoutProtocolWitness ==
    /\ fresh
    /\ Skipped(last) # {}
    /\ \E i \in Widgets(last) : Cardinality(MeasuredAt(last, i)) = 2
    /\ Len(last.children) = 2


\* ------------------------------------------------------------------------
\* Properties of the Fork view (under SpecFork)
\* ------------------------------------------------------------------------
\* the view id of a sub-view: 0 for the active view, 1 for the alongside
\* view
ForkIdOf(sub) == IF sub = "active_view" THEN 0 ELSE 1

\* C30: in build, rebuild, teardown and message of a Fork, a sub-view
\* always runs under its own view id, the active view under 0 and the
\* alongside view under 1, and a message with first id 0 goes to the
\* active view, one with first id 1 to the alongside view; so the path a
\* sub-view sees at teardown is the path it was built with.
ForkViewIdConsistency ==
    /\ \A k \in 1 .. Len(fork_calls) :
           fork_calls[k].path = PushId(view_path, ForkIdOf(fork_calls[k].view))
    /\ \A t \in CallsOf("teardown"), b \in CallsOf("build") :
           fork_calls[t].view = fork_calls[b].view
               => fork_calls[t].path = fork_calls[b].path

=============================================================================
